---- MODULE Spec2Model ----
(***************************************************************************)
(* Model of the drawing-pack exporter (drawing_engine.py, models.py,       *)
(* templates.py) and of its main window (gui.py).                          *)
(*                                                                         *)
(* Python strings are sequences of one-character strings, so that strip,   *)
(* split, basename and splitext are computed character by character.       *)
(* Optional[int] is a sequence of length 0 (None) or 1.                    *)
(* Lengths are integers in units of 1/127 pt: reportlab's mm is 72/25.4 pt *)
(* = 360/127 pt, so every ISO page size is an integer in that unit.        *)
(*                                                                         *)
(* The specifications share the variables:                                 *)
(*   Spec         export_sheet_plan_to_pdf, statement by statement         *)
(*   SpecCompose  _compose_title_block_for_sheet on drawn arguments        *)
(*   SpecWrap     _wrap_text_to_lines on drawn arguments, wrapped twice    *)
(*   SpecDraw     _draw_wrapped_text on drawn arguments                    *)
(*   SpecCell     _draw_cell on drawn arguments                            *)
(*   SpecFit      the rectangle of _draw_image_fitted on drawn arguments   *)
(*   SpecLayout   the viewport and the title block bands on drawn pages    *)
(*   SpecGui      the main window of gui.py, one action per handler        *)
(* The variables a specification does not use stay at ExportIdle,          *)
(* CheckIdle or GuiIdle.  os.path is posixpath; text widths are exact      *)
(* integers where reportlab adds floats.                                   *)
(***************************************************************************)
EXTENDS Integers, Sequences, FiniteSets, TLC

VARIABLES
    sheet_plan,   \* export: the list of SheetPlanItem handed to the export
    settings,     \* export: ExportSettings
    heap,         \* export: TitleBlock objects by reference (0 = global_tb)
    tb_for_sheet, \* export: reference of the composed title block, <<>> if none
    pc,           \* export: position in export_sheet_plan_to_pdf
    idx,          \* export: loop counter of enumerate(sheet_plan, start=1)
    total,        \* export: len(sheet_plan) as read at line 62
    img_src,      \* export: <<>> or <<image source of the current sheet>>
    images,       \* export: PIL images created so far, sheet number -> "open"/"closed"
    canvas,       \* export: the reportlab canvas (pages, current page, saves)
    error,        \* export: <<>> or the exception type that left the call
    logo_file,    \* export: the logo file on disk, "ok" or "damaged"
    ck_in,        \* string functions: the inputs drawn for the call
    ck_out,       \* string functions: the results of the calls made
    ck_pc,        \* string functions: which call has been made
    gui,          \* main window: the fields and widgets of MainWindow
    disk,         \* main window: the job files on disk, path -> parsed content
    gui_op        \* main window: the handler in progress and the last one run

exportVars == <<sheet_plan, settings, heap, tb_for_sheet, pc, idx, total,
                img_src, images, canvas, error, logo_file>>
checkVars == <<ck_in, ck_out, ck_pc>>
guiVars == <<gui, disk, gui_op>>
vars == <<sheet_plan, settings, heap, tb_for_sheet, pc, idx, total,
          img_src, images, canvas, error, logo_file, ck_in, ck_out, ck_pc,
          gui, disk, gui_op>>

----------------------------------------------------------------------------
(* Bounds *)

MaxPlan == 3
MaxLongPlan == 11
MaxTitle == 3
MaxText == 5

----------------------------------------------------------------------------
(* Python string primitives *)

Whitespace == {" ", "\t", "\n", "\r"}

RECURSIVE lstrip(_)
lstrip(s) ==
    IF s # <<>> /\ Head(s) \in Whitespace THEN lstrip(Tail(s)) ELSE s

RECURSIVE rstrip(_)
rstrip(s) ==
    IF s # <<>> /\ s[Len(s)] \in Whitespace
    THEN rstrip(SubSeq(s, 1, Len(s) - 1)) ELSE s

strip(s) == rstrip(lstrip(s))

RECURSIVE remove_cr(_)
remove_cr(s) ==
    IF s = <<>> THEN <<>>
    ELSE IF Head(s) = "\r" THEN remove_cr(Tail(s))
    ELSE <<Head(s)>> \o remove_cr(Tail(s))

LowerChar(ch) ==
    CASE ch = "P" -> "p" [] ch = "D" -> "d" [] ch = "F" -> "f"
      [] ch = "I" -> "i" [] ch = "M" -> "m" [] ch = "A" -> "a"
      [] ch = "G" -> "g" [] ch = "E" -> "e" [] OTHER -> ch

lower(s) == [i \in 1..Len(s) |-> LowerChar(s[i])]

\* index of the last occurrence of ch in s, 0 when there is none (str.rfind + 1)
RECURSIVE rfind(_, _)
rfind(s, ch) ==
    IF s = <<>> THEN 0
    ELSE IF s[Len(s)] = ch THEN Len(s)
    ELSE rfind(SubSeq(s, 1, Len(s) - 1), ch)

Digit(d) == <<"0", "1", "2", "3", "4", "5", "6", "7", "8", "9">>[d + 1]

\* str(n) for n >= 0
RECURSIVE int_to_str(_)
int_to_str(n) ==
    IF n < 10 THEN <<Digit(n)>> ELSE int_to_str(n \div 10) \o <<Digit(n % 10)>>

\* posixpath.basename
basename(p) == SubSeq(p, rfind(p, "/") + 1, Len(p))

\* genericpath._splitext: the extension starts at the last dot, unless that
\* dot is only preceded (after the last separator) by dots
splitext(p) ==
    LET sepIndex == rfind(p, "/")
        dotIndex == rfind(p, ".")
    IN  IF dotIndex > sepIndex
           /\ \E i \in (sepIndex + 1)..(dotIndex - 1) : p[i] # "."
        THEN <<SubSeq(p, 1, dotIndex - 1), SubSeq(p, dotIndex, Len(p))>>
        ELSE <<p, <<>>>>

----------------------------------------------------------------------------
(* models.py *)

TitleBlockFields ==
    {"issuer_company", "logo_path", "project", "client", "drawing_number",
     "revision", "date", "drawn_by", "checked_by", "approved_by"}

\* dataclasses.asdict: the declared fields only, never a dynamic attribute
asdict(obj) == [f \in TitleBlockFields |-> obj[f]]

SheetPlanItem(kind, source_path, source_label, pdf_page_index, drawing_title, comments) ==
    [kind |-> kind, source_path |-> source_path, source_label |-> source_label,
     pdf_page_index |-> pdf_page_index, drawing_title |-> drawing_title,
     comments |-> comments]

----------------------------------------------------------------------------
(* templates.py *)

\* reportlab.lib.pagesizes in 1/127 pt: A4 = 210 x 297 mm, A3 = 297 x 420 mm
TEMPLATES ==
    [A4_Landscape |-> <<106920, 75600>>,
     A4_Portrait  |-> <<75600, 106920>>,
     A3_Landscape |-> <<151200, 106920>>,
     A3_Portrait  |-> <<106920, 151200>>]

\* mutant: an unknown name resolves to the first registered template
get_template_first(name) ==
    IF name \in DOMAIN TEMPLATES
    THEN [name |-> name, pagesize |-> TEMPLATES[name]]
    ELSE [name |-> "A4_Landscape", pagesize |-> TEMPLATES["A4_Landscape"]]

get_template(name) ==
    IF name \in DOMAIN TEMPLATES
    THEN [name |-> name, pagesize |-> TEMPLATES[name]]
    ELSE [name |-> "A3_Landscape", pagesize |-> TEMPLATES["A3_Landscape"]]

----------------------------------------------------------------------------
(* The files the export reads.  Image.open succeeds on a readable image;   *)
(* fitz.open succeeds on an existing PDF and gives its page count.         *)

p_png == <<"p", ".", "p", "n", "g">>
q_png == <<"a", "/", "q", ".", "p", "n", "g">>
x_png == <<"x", ".", "p", "n", "g">>
d_pdf == <<"d", ".", "p", "d", "f">>
m_pdf == <<"m", ".", "p", "d", "f">>
drawing_pdf == <<"d", "r", "a", "w", "i", "n", "g", ".", "p", "d", "f">>
dir_y_pdf == <<"a", ".", "b", "/", "y", ".", "p", "d", "f">>
plan_png == <<"p", "l", "a", "n", ".", "p", "n", "g">>
logo_png == <<"l", ".", "p", "n", "g">>
output_pdf_path == <<"o", "/", "k", ".", "p", "d", "f">>

ImageReadable(path) == path \in {p_png, q_png}

PdfOpens(path) == path = d_pdf

PdfPageCount(path) == IF path = d_pdf THEN 2 ELSE 0

----------------------------------------------------------------------------
(* drawing_engine.py: conversion of a plan item to an image source *)

Ok(src) == [ok |-> TRUE, err |-> "", src |-> <<src>>]
Raise(type) == [ok |-> FALSE, err |-> type, src |-> <<>>]

\* an image source: a path (str) or a PIL image created from a PDF page
PathSource(path) == [pil |-> FALSE, path |-> path, page |-> <<>>]
PilImage(path, page_index) == [pil |-> TRUE, path |-> path, page |-> <<page_index>>]

\* mutant: the upper bound of the range check is off by one
_render_pdf_page_to_image_off_by_one(pdf_path, page_index) ==
    IF ~PdfOpens(pdf_path) THEN Raise("FileError")
    ELSE IF page_index < 0 \/ page_index > PdfPageCount(pdf_path)
    THEN Raise("ValueError")
    ELSE Ok(PilImage(pdf_path, page_index))

_render_pdf_page_to_image(pdf_path, page_index) ==
    IF ~PdfOpens(pdf_path) THEN Raise("FileError")
    ELSE IF page_index < 0 \/ page_index >= PdfPageCount(pdf_path)
    THEN Raise("ValueError")
    ELSE Ok(PilImage(pdf_path, page_index))

\* mutant: a kind that is not pdf is taken for an image
_sheet_item_to_image_lenient(item) ==
    LET kind == lower(item.kind)
    IN  IF kind = <<"p", "d", "f">>
        THEN IF item.pdf_page_index = <<>> THEN Raise("ValueError")
             ELSE _render_pdf_page_to_image(item.source_path, item.pdf_page_index[1])
        ELSE Ok(PathSource(item.source_path))

_sheet_item_to_image(item) ==
    LET kind == lower(item.kind)
    IN  IF kind = <<"i", "m", "a", "g", "e">> THEN Ok(PathSource(item.source_path))
        ELSE IF kind = <<"p", "d", "f">>
        THEN IF item.pdf_page_index = <<>> THEN Raise("ValueError")
             ELSE _render_pdf_page_to_image(item.source_path, item.pdf_page_index[1])
        ELSE Raise("ValueError")

----------------------------------------------------------------------------
(* drawing_engine.py: the per-sheet title block *)

\* mutant: the extension is kept
_default_title_from_label_keep_ext(label) == basename(label)

_default_title_from_label(label) ==
    LET base == basename(label)
        name == splitext(base)[1]
    IN  IF name # <<>> THEN name ELSE base

setattr(h, ref, name, value) == [h EXCEPT ![ref] = (name :> value) @@ h[ref]]

getattr(obj, name, default) == IF name \in DOMAIN obj THEN obj[name] ELSE default

\* mutant: tb = global_tb, the shared record itself
TitleBlockCopy_alias(h, global_ref) == [heap |-> h, ref |-> global_ref]

\* tb = TitleBlock(**asdict(global_tb)): a new object holding the ten fields
TitleBlockCopy(h, global_ref) ==
    LET ref == Cardinality(DOMAIN h)
    IN  [heap |-> (ref :> asdict(h[global_ref])) @@ h, ref |-> ref]

_compose_title_block_for_sheet(h, global_ref, item) ==
    LET new == TitleBlockCopy(h, global_ref)
        tb == new.ref
        h1 == IF strip(item.drawing_title) # <<>>
              THEN setattr(new.heap, tb, "drawing_title", strip(item.drawing_title))
              ELSE setattr(new.heap, tb, "drawing_title",
                           _default_title_from_label(item.source_label))
        h2 == setattr(h1, tb, "comments", strip(item.comments))
    IN  [heap |-> h2, ref |-> tb]

----------------------------------------------------------------------------
(* drawing_engine.py: rendering one sheet onto the canvas *)

BlankPage == [ops |-> <<>>, image |-> <<>>, tb |-> <<>>, sheet |-> <<>>]

NewCanvas == [created |-> FALSE, pagesize |-> <<0, 0>>, title |-> <<>>,
              cur |-> BlankPage, pages |-> <<>>, saves |-> 0, saved_pages |-> <<>>]

\* mutant: the two numbers are swapped
SheetCellText_swapped(sheet_no, sheet_total) ==
    int_to_str(sheet_total) \o <<" ", "o", "f", " ">> \o int_to_str(sheet_no)

\* the text of the SHEET cell: f"{sheet_no} of {sheet_total}"
SheetCellText(sheet_no, sheet_total) ==
    int_to_str(sheet_no) \o <<" ", "o", "f", " ">> \o int_to_str(sheet_total)

TitleBlockAttrs == TitleBlockFields \cup {"drawing_title", "comments"}

\* lines 463-501: nothing is drawn without a logo path; Image.open at line
\* 476 reads the header only, drawImage at line 501 decodes the data and
\* raises when the file is damaged
_draw_logo_in_box(logo_path, file) ==
    IF logo_path = <<>> THEN "none"
    ELSE IF file = "damaged" THEN "raises"
    ELSE "drawn"

\* the values _draw_iso_title_block reads with getattr(title_block, f, "");
\* the logo is drawn at line 563
_draw_iso_title_block(page, title_block, sheet_no, sheet_total, file) ==
    IF _draw_logo_in_box(getattr(title_block, "logo_path", <<>>), file) = "raises"
    THEN [ok |-> FALSE, err |-> "OSError", page |-> page]
    ELSE [ok |-> TRUE, err |-> "",
          page |-> [page EXCEPT
                      !.ops = @ \o <<"title_block">>,
                      !.tb = <<[f \in TitleBlockAttrs |-> getattr(title_block, f, <<>>)]>>,
                      !.sheet = SheetCellText(sheet_no, sheet_total)]]

\* Image.open(path) for a path source; a PIL image is read directly
_draw_image_fitted(page, image_source) ==
    IF ~image_source.pil /\ ~ImageReadable(image_source.path)
    THEN [ok |-> FALSE, err |-> "OSError", page |-> page]
    ELSE [ok |-> TRUE, err |-> "",
          page |-> [page EXCEPT !.ops = @ \o <<"drawImage">>,
                                !.image = <<image_source>>]]

_render_one_sheet(page, image_source, title_block, sheet_no, sheet_total, file) ==
    LET framed == [page EXCEPT !.ops = @ \o <<"rect">>]
        drawn == _draw_image_fitted(framed, image_source)
    IN  IF ~drawn.ok THEN drawn
        ELSE _draw_iso_title_block(drawn.page, title_block, sheet_no, sheet_total,
                                   file)

\* mutant: the page is never committed, every sheet is drawn on the same page
showPage_missing(c) == c

\* c.showPage(): the current page is committed with the canvas page size
showPage(c) ==
    [c EXCEPT !.pages = @ \o <<[ops |-> c.cur.ops, image |-> c.cur.image,
                                tb |-> c.cur.tb, sheet |-> c.cur.sheet,
                                size |-> c.pagesize]>>,
              !.cur = BlankPage]

\* c.save(): the document is written to output_pdf_path
save(c) == [c EXCEPT !.saves = @ + 1, !.saved_pages = c.pages]

----------------------------------------------------------------------------
(* Inputs of the export *)

KindImage == <<"i", "m", "a", "g", "e">>
KindPdf == <<"p", "d", "f">>
\* gui.py, _rebuild_sheet_plan: label = f"{base} - Page {i+1}"
pdf_page_label(base, i) ==
    base \o <<" ", "-", " ", "P", "a", "g", "e", " ">> \o int_to_str(i + 1)

PageLabel(n) == pdf_page_label(basename(d_pdf), n - 1)

Items ==
    { SheetPlanItem(KindImage, p_png, <<"p", ".", "p", "n", "g">>, <<>>, <<>>, <<>>),
      SheetPlanItem(KindImage, q_png, <<"q", ".", "p", "n", "g">>, <<>>,
                    <<" ", "T", " ">>, <<"c", "\n">>),
      SheetPlanItem(KindImage, x_png, <<"x", ".", "p", "n", "g">>, <<>>, <<>>, <<>>),
      SheetPlanItem(KindPdf, d_pdf, PageLabel(1), <<0>>, <<>>, <<" ">>),
      SheetPlanItem(KindPdf, d_pdf, PageLabel(2), <<1>>, <<"B">>, <<"n">>),
      SheetPlanItem(KindPdf, d_pdf, PageLabel(3), <<2>>, <<>>, <<>>),
      SheetPlanItem(KindPdf, d_pdf, PageLabel(0), <<-1>>, <<>>, <<>>),
      SheetPlanItem(KindPdf, d_pdf, PageLabel(1), <<>>, <<>>, <<>>),
      SheetPlanItem(<<"P", "D", "F">>, d_pdf, PageLabel(2), <<1>>, <<>>, <<>>),
      SheetPlanItem(KindPdf, m_pdf, <<"m", ".", "p", "d", "f">>, <<0>>, <<>>, <<>>),
      SheetPlanItem(<<"d", "w", "g">>, p_png, <<"p", ".", "d", "w", "g">>, <<>>, <<>>, <<>>) }

PlainItem == SheetPlanItem(KindImage, p_png, <<"p", ".", "p", "n", "g">>, <<>>, <<>>, <<>>)

\* every plan of at most MaxPlan items, and longer plans of one plain image
Plans ==
    UNION {[1..n -> Items] : n \in 0..MaxPlan}
    \cup {[i \in 1..n |-> PlainItem] : n \in (MaxPlan + 1)..MaxLongPlan}

TemplateNames == {"A4_Landscape", "A4_Portrait", "A3_Landscape", "A3_Portrait", "Letter"}

GlobalTitleBlock ==
    [issuer_company |-> <<"A">>, logo_path |-> logo_png, project |-> <<"P">>,
     client |-> <<"C">>, drawing_number |-> <<"7">>, revision |-> <<"B">>,
     date |-> <<"1">>, drawn_by |-> <<"d">>, checked_by |-> <<"c">>,
     approved_by |-> <<"a">>]

GlobalRef == 0

----------------------------------------------------------------------------
(* export_sheet_plan_to_pdf as a state machine *)

CheckIdle == ck_in = <<>> /\ ck_out = <<>> /\ ck_pc = "idle"

GuiIdle == gui = <<>> /\ disk = <<>> /\ gui_op = <<>>

ExportInit ==
    /\ sheet_plan \in Plans
    /\ settings \in {[template_name |-> n] : n \in TemplateNames}
    /\ heap = (GlobalRef :> GlobalTitleBlock)
    /\ tb_for_sheet = <<>>
    /\ pc = "start"
    /\ idx = 0
    /\ total = 0
    /\ img_src = <<>>
    /\ images = <<>>
    /\ canvas = NewCanvas
    /\ error = <<>>
    /\ logo_file \in {"ok", "damaged"}
    /\ logo_file = "damaged" =>
           settings.template_name = "A3_Landscape" /\ Len(sheet_plan) <= 2

Init == ExportInit /\ CheckIdle /\ GuiIdle

\* mutant: no empty-plan check; the for loop over an empty plan ends at once
Start_unchecked ==
    /\ pc = "start"
    /\ canvas' = [canvas EXCEPT
                    !.created = TRUE,
                    !.pagesize = get_template(settings.template_name).pagesize,
                    !.title = basename(output_pdf_path)]
    /\ total' = Len(sheet_plan)
    /\ idx' = 1
    /\ pc' = IF sheet_plan = <<>> THEN "save" ELSE "convert"
    /\ UNCHANGED <<logo_file, sheet_plan, settings, heap, tb_for_sheet, img_src, images, error>>
    /\ UNCHANGED <<checkVars, guiVars>>

\* lines 53-62: the empty-plan check, the template, the canvas, the total
Start ==
    /\ pc = "start"
    /\ IF sheet_plan = <<>>
       THEN /\ pc' = "raised"
            /\ error' = <<"ValueError">>
            /\ UNCHANGED <<canvas, total, idx>>
       ELSE /\ canvas' = [canvas EXCEPT
                            !.created = TRUE,
                            !.pagesize = get_template(settings.template_name).pagesize,
                            !.title = basename(output_pdf_path)]
            /\ total' = Len(sheet_plan)
            /\ idx' = 1
            /\ pc' = "convert"
            /\ UNCHANGED error
    /\ UNCHANGED <<logo_file, sheet_plan, settings, heap, tb_for_sheet, img_src, images>>
    /\ UNCHANGED <<checkVars, guiVars>>

\* line 65: img_src = _sheet_item_to_image(item, dpi)
Convert ==
    /\ pc = "convert"
    /\ LET r == _sheet_item_to_image(sheet_plan[idx])
       IN  IF r.ok
           THEN /\ img_src' = r.src
                /\ images' = IF r.src[1].pil THEN (idx :> "open") @@ images ELSE images
                /\ pc' = "compose"
                /\ UNCHANGED error
           ELSE /\ pc' = "raised"
                /\ error' = <<r.err>>
                /\ UNCHANGED <<img_src, images>>
    /\ UNCHANGED <<logo_file, sheet_plan, settings, heap, tb_for_sheet, idx, total, canvas>>
    /\ UNCHANGED <<checkVars, guiVars>>

\* lines 67-70: tb_for_sheet is rebound, the previous sheet's object is dropped
Compose ==
    /\ pc = "compose"
    /\ LET live == (GlobalRef :> heap[GlobalRef])
           r == _compose_title_block_for_sheet(live, GlobalRef, sheet_plan[idx])
       IN  /\ heap' = r.heap
           /\ tb_for_sheet' = <<r.ref>>
    /\ pc' = "render"
    /\ UNCHANGED <<logo_file, sheet_plan, settings, idx, total, img_src, images, canvas, error>>
    /\ UNCHANGED <<checkVars, guiVars>>

\* lines 72-81: _render_one_sheet draws on the current page, or raises
Render ==
    /\ pc = "render"
    /\ LET r == _render_one_sheet(canvas.cur, img_src[1], heap[tb_for_sheet[1]],
                                  idx, total, logo_file)
       IN  /\ canvas' = [canvas EXCEPT !.cur = r.page]
           /\ IF r.ok
              THEN pc' = "showPage" /\ UNCHANGED error
              ELSE pc' = "raised" /\ error' = <<r.err>>
    /\ UNCHANGED <<logo_file, sheet_plan, settings, heap, tb_for_sheet, idx, total, img_src, images>>
    /\ UNCHANGED <<checkVars, guiVars>>

\* line 82
ShowPage ==
    /\ pc = "showPage"
    /\ canvas' = showPage(canvas)
    /\ pc' = "close"
    /\ UNCHANGED <<logo_file, sheet_plan, settings, heap, tb_for_sheet, idx, total, img_src,
                   images, error>>
    /\ UNCHANGED <<checkVars, guiVars>>

\* mutant: the image is left open
close_image_never(imgs, src, sheet_no) == imgs

\* lines 85-86: a PIL image is closed
close_image(imgs, src, sheet_no) ==
    IF src.pil THEN [imgs EXCEPT ![sheet_no] = "closed"] ELSE imgs

\* lines 85-86, then the for loop takes the next item or ends
CloseImage ==
    /\ pc = "close"
    /\ images' = close_image(images, img_src[1], idx)
    /\ IF idx < Len(sheet_plan)
       THEN idx' = idx + 1 /\ pc' = "convert"
       ELSE idx' = idx /\ pc' = "save"
    /\ UNCHANGED <<logo_file, sheet_plan, settings, heap, tb_for_sheet, total, img_src,
                   canvas, error>>
    /\ UNCHANGED <<checkVars, guiVars>>

\* line 88
Save ==
    /\ pc = "save"
    /\ canvas' = save(canvas)
    /\ pc' = "done"
    /\ UNCHANGED <<logo_file, sheet_plan, settings, heap, tb_for_sheet, idx, total, img_src,
                   images, error>>
    /\ UNCHANGED <<checkVars, guiVars>>

Next == Start \/ Convert \/ Compose \/ Render \/ ShowPage \/ CloseImage \/ Save

Spec == Init /\ [][Next]_vars

----------------------------------------------------------------------------
(* Properties of the export *)

\* an item that converts and renders: a readable image, or an existing page
\* of a PDF that opens
ItemRenders(item) ==
    \/ lower(item.kind) = KindImage /\ ImageReadable(item.source_path)
    \/ /\ lower(item.kind) = KindPdf
       /\ item.pdf_page_index # <<>>
       /\ PdfOpens(item.source_path)
       /\ item.pdf_page_index[1] \in 0..(PdfPageCount(item.source_path) - 1)

\* a pdf item whose page index is missing or outside its source's pages
BadPdfItem(item) ==
    /\ lower(item.kind) = KindPdf
    /\ \/ item.pdf_page_index = <<>>
       \/ /\ PdfOpens(item.source_path)
          /\ item.pdf_page_index[1] \notin 0..(PdfPageCount(item.source_path) - 1)

GoodPlan ==
    /\ sheet_plan # <<>>
    /\ \A k \in 1..Len(sheet_plan) : ItemRenders(sheet_plan[k])
    /\ logo_file = "ok"

SelectedPageSize ==
    IF settings.template_name \in DOMAIN TEMPLATES
    THEN TEMPLATES[settings.template_name]
    ELSE TEMPLATES["A3_Landscape"]

PageIsFromItem(page, item) ==
    /\ page.ops = <<"rect", "drawImage", "title_block">>
    /\ page.image # <<>>
    /\ page.image[1].path = item.source_path
    /\ page.image[1].page = (IF page.image[1].pil THEN item.pdf_page_index ELSE <<>>)
    /\ page.size = SelectedPageSize

\* C1: a non-empty plan of N items that all convert and render is exported
\* without error as N pages, page k from item k, each of the selected
\* template's size and committed after its title block; the document is
\* saved once, after the last page.
C1_ExportEmitsPlanPages ==
    GoodPlan =>
        /\ pc # "raised" /\ error = <<>>
        /\ \A k \in 1..Len(canvas.pages) :
               k <= Len(sheet_plan) /\ PageIsFromItem(canvas.pages[k], sheet_plan[k])
        /\ pc \in {"convert", "compose", "render", "showPage"}
               => Len(canvas.pages) = idx - 1
        /\ pc \in {"save", "done"} => Len(canvas.pages) = Len(sheet_plan)
        /\ pc # "done" => canvas.saves = 0
        /\ pc = "done" => canvas.saves = 1 /\ canvas.saved_pages = canvas.pages

C1_Witness ==
    /\ pc = "done"
    /\ Len(sheet_plan) = MaxPlan
    /\ sheet_plan[1] # sheet_plan[2]
    /\ \E k \in 1..Len(sheet_plan) : lower(sheet_plan[k].kind) = KindPdf
    /\ Len(canvas.saved_pages) = MaxPlan

\* C2: with a pdf item whose page index is missing or out of range anywhere
\* in the plan, the document is never saved and the call never returns
\* normally; when the loop has emitted pages 1..k-1 and item k is such an
\* item, the call raises a validation error.
C2_BadPdfPageAborts ==
    (\E k \in 1..Len(sheet_plan) : BadPdfItem(sheet_plan[k])) =>
        /\ canvas.saves = 0 /\ canvas.saved_pages = <<>>
        /\ pc \notin {"save", "done"}
        /\ (idx >= 1 /\ BadPdfItem(sheet_plan[idx]))
               => /\ pc \in {"convert", "raised"}
                  /\ Len(canvas.pages) = idx - 1
                  /\ pc = "raised" => error = <<"ValueError">>

C2_Witness ==
    /\ pc = "raised"
    /\ idx = MaxPlan
    /\ BadPdfItem(sheet_plan[idx])
    /\ sheet_plan[idx].pdf_page_index # <<>>
    /\ Len(canvas.pages) = MaxPlan - 1

\* C3: an empty plan raises a validation error before the canvas is
\* created; no page is emitted and nothing is saved.
C3_EmptyPlanRaisesFirst ==
    sheet_plan = <<>> =>
        /\ ~canvas.created
        /\ canvas.pages = <<>> /\ canvas.cur = BlankPage
        /\ canvas.saves = 0
        /\ pc \in {"start", "raised"}
        /\ pc = "raised" => error = <<"ValueError">>

C3_Witness == sheet_plan = <<>> /\ pc = "raised" /\ error = <<"ValueError">>

LiveImages == {k \in DOMAIN images : images[k] = "open"}

\* C4: the image rasterized for sheet k is closed after page k is committed
\* and before sheet k+1 is converted; at most one rasterized image is live.
C4_OneLiveImage ==
    /\ Cardinality(LiveImages) <= 1
    /\ LiveImages \subseteq {idx}
    /\ pc = "convert" => LiveImages = {}
    /\ \A k \in DOMAIN images : images[k] = "closed" => Len(canvas.pages) >= k

C4_Witness ==
    /\ pc = "compose"
    /\ idx >= 2
    /\ (idx - 1) \in DOMAIN images /\ images[idx - 1] = "closed"
    /\ LiveImages = {idx}

IsDigit(ch) == ch \in {"0", "1", "2", "3", "4", "5", "6", "7", "8", "9"}

DigitValue(ch) == CHOOSE d \in 0..9 : Digit(d) = ch

\* the number a decimal numeral denotes
RECURSIVE DecimalValue(_)
DecimalValue(s) ==
    IF s = <<>> THEN 0
    ELSE 10 * DecimalValue(SubSeq(s, 1, Len(s) - 1)) + DigitValue(s[Len(s)])

IsNumeral(s) ==
    /\ s # <<>>
    /\ \A i \in 1..Len(s) : IsDigit(s[i])
    /\ Len(s) > 1 => s[1] # "0"

\* text reads "<k> of <n>" with k and n written in decimal
ReadsKofN(text, k, n) ==
    \E i \in 1..Len(text) :
        /\ i + 3 < Len(text)
        /\ SubSeq(text, i, i + 3) = <<" ", "o", "f", " ">>
        /\ IsNumeral(SubSeq(text, 1, i - 1))
        /\ DecimalValue(SubSeq(text, 1, i - 1)) = k
        /\ IsNumeral(SubSeq(text, i + 4, Len(text)))
        /\ DecimalValue(SubSeq(text, i + 4, Len(text))) = n

\* C5: the SHEET cell of page k reads "k of N", k counted from 1 in plan
\* order and N the length of the plan.
C5_SheetCellText ==
    /\ \A k \in 1..Len(canvas.pages) :
           /\ k <= Len(sheet_plan)
           /\ ReadsKofN(canvas.pages[k].sheet, k, Len(sheet_plan))
    /\ pc = "showPage" => ReadsKofN(canvas.cur.sheet, Len(canvas.pages) + 1, Len(sheet_plan))

C5_Witness ==
    /\ pc = "done"
    /\ Len(canvas.pages) >= 10
    /\ Len(canvas.pages[10].sheet) = 8

ExpectedTitle(item) ==
    IF strip(item.drawing_title) # <<>> THEN strip(item.drawing_title)
    ELSE _default_title_from_label(item.source_label)

PageTextFromItem(page, item) ==
    /\ page.tb # <<>>
    /\ page.tb[1].drawing_title = ExpectedTitle(item)
    /\ page.tb[1].comments = strip(item.comments)
    /\ \A f \in TitleBlockFields : page.tb[1][f] = GlobalTitleBlock[f]

\* C8: no step of the export changes the global title block record, which
\* keeps its ten fields and gains no drawing_title or comments, nor the
\* sheet plan; the title and comments on page k are those of plan item k.
C8_GlobalRecordUntouched ==
    [][ /\ heap'[GlobalRef] = heap[GlobalRef]
        /\ DOMAIN heap'[GlobalRef] = TitleBlockFields
        /\ sheet_plan' = sheet_plan
        /\ \A k \in 1..Len(canvas'.pages) :
               PageTextFromItem(canvas'.pages[k], sheet_plan[k]) ]_vars

C8_Witness ==
    /\ pc = "done"
    /\ Len(canvas.pages) >= 2
    /\ canvas.pages[1].tb[1].drawing_title # canvas.pages[2].tb[1].drawing_title
    /\ heap[GlobalRef] = GlobalTitleBlock

----------------------------------------------------------------------------
(* _compose_title_block_for_sheet on its own, over drawn inputs *)

ExportIdle ==
    /\ sheet_plan = <<>>
    /\ settings = [template_name |-> "A3_Landscape"]
    /\ heap = (GlobalRef :> GlobalTitleBlock)
    /\ tb_for_sheet = <<>>
    /\ pc = "idle"
    /\ idx = 0
    /\ total = 0
    /\ img_src = <<>>
    /\ images = <<>>
    /\ canvas = NewCanvas
    /\ error = <<>>
    /\ logo_file = "ok"

RECURSIVE StringsUpTo(_, _)
StringsUpTo(alphabet, n) ==
    IF n = 0 THEN {<<>>}
    ELSE LET shorter == StringsUpTo(alphabet, n - 1)
         IN  shorter \cup {Append(t, ch) : t \in shorter, ch \in alphabet}

EmptyTitleBlock == [f \in TitleBlockFields |-> <<>>]

\* the paths a user can add: PDFs give one label per page, other files one label
PdfPaths == {d_pdf, drawing_pdf, dir_y_pdf}
ImagePaths == {p_png, q_png, plan_png}

\* the labels _rebuild_sheet_plan gives to the pages of a PDF
PdfPageLabels == {pdf_page_label(basename(p), i) : p \in PdfPaths, i \in 0..1}

IsPdfPageLabel(label) == label \in PdfPageLabels

ComposeLabels ==
    PdfPageLabels \cup {basename(p) : p \in ImagePaths}
    \cup {<<>>, <<"x">>, <<".", "r", "c">>, <<"a", ".">>, <<".", ".">>,
          <<"a", "/">>, <<"a", ".", "b", "/", "c">>, <<"x", ".", "t", ".", "g">>,
          <<"a", "/", ".", "b">>, <<".", ".", "x", ".", "y">>}

ComposeInputs ==
    [global : {GlobalTitleBlock, EmptyTitleBlock},
     item : {SheetPlanItem(KindImage, p_png, label, <<>>, title, comments) :
                label \in ComposeLabels,
                title \in StringsUpTo({" ", "T", "\t"}, MaxTitle),
                comments \in {<<>>, <<" ">>, <<" ", "c", " ">>, <<"c", "\n">>}}]

ComposeInit ==
    /\ ck_in \in ComposeInputs
    /\ ck_out = <<>>
    /\ ck_pc = "ready"
    /\ ExportIdle /\ GuiIdle

ComposeCall ==
    /\ ck_pc = "ready"
    /\ ck_out' = <<_compose_title_block_for_sheet((GlobalRef :> ck_in.global),
                                                   GlobalRef, ck_in.item)>>
    /\ ck_pc' = "composed"
    /\ UNCHANGED ck_in
    /\ UNCHANGED <<exportVars, guiVars>>

ComposeNext == ComposeCall

SpecCompose == ComposeInit /\ [][ComposeNext]_vars

\* r is s without its leading and trailing whitespace
IsStripOf(s, r) ==
    \E i \in 0..Len(s), j \in 0..Len(s) :
        /\ i <= j
        /\ r = SubSeq(s, i + 1, j)
        /\ \A n \in 1..i : s[n] \in Whitespace
        /\ \A n \in (j + 1)..Len(s) : s[n] \in Whitespace
        /\ r # <<>> => r[1] \notin Whitespace /\ r[Len(r)] \notin Whitespace

\* b is what follows the last "/" of p
IsBasenameOf(p, b) ==
    \E i \in 0..Len(p) :
        /\ b = SubSeq(p, i + 1, Len(p))
        /\ \A n \in 1..Len(b) : b[n] # "/"
        /\ i > 0 => p[i] = "/"

\* name is b without its extension: the extension runs from the last "."
\* of b to its end, and a name made of leading dots only has no extension
IsStemOf(b, name) ==
    \E n \in 0..Len(b) :
        /\ name = SubSeq(b, 1, n)
        /\ LET ext == SubSeq(b, n + 1, Len(b))
           IN  \/ /\ ext # <<>>
                  /\ ext[1] = "."
                  /\ \A m \in 2..Len(ext) : ext[m] # "."
                  /\ \E m \in 1..n : name[m] # "."
               \/ /\ ext = <<>>
                  /\ ~ \E d \in 1..Len(b) :
                          b[d] = "." /\ \E m \in 1..(d - 1) : b[m] # "."

Suffixes(s) == {SubSeq(s, i, Len(s)) : i \in 1..(Len(s) + 1)}
Prefixes(s) == {SubSeq(s, 1, i) : i \in 0..Len(s)}

ComposedObject == ck_out[1].heap[ck_out[1].ref]

\* C6: the composed record has the ten global fields of the global title
\* block; its drawing_title is the item's title stripped when that is not
\* blank, otherwise the basename of the label without its extension (the
\* whole basename when that is empty); its comments is the item's comments
\* stripped.
C6_ComposedFields ==
    ck_pc = "composed" =>
        LET item == ck_in.item
            obj == ComposedObject
        IN  /\ \A f \in TitleBlockFields : obj[f] = ck_in.global[f]
            /\ IF \E n \in 1..Len(item.drawing_title) :
                      item.drawing_title[n] \notin Whitespace
               THEN obj.drawing_title # <<>>
                    /\ IsStripOf(item.drawing_title, obj.drawing_title)
               ELSE \E b \in Suffixes(item.source_label) :
                        /\ IsBasenameOf(item.source_label, b)
                        /\ \E name \in Prefixes(b) :
                               /\ IsStemOf(b, name)
                               /\ obj.drawing_title = (IF name # <<>> THEN name ELSE b)
            /\ IsStripOf(item.comments, obj.comments)

C6_Witness ==
    /\ ck_pc = "composed"
    /\ ck_in.item.drawing_title = <<" ", "\t">>
    /\ ck_in.item.source_label = plan_png
    /\ ComposedObject.drawing_title = <<"p", "l", "a", "n">>
    /\ ck_in.item.comments = <<" ", "c", " ">>
    /\ ComposedObject.comments = <<"c">>

\* C7: with a blank drawing_title, a PDF page label "<name>.pdf - Page <n>"
\* is taken whole as the title, and the label "plan.png" gives "plan".
C7_PdfPageLabelKeptWhole ==
    (ck_pc = "composed" /\ strip(ck_in.item.drawing_title) = <<>>) =>
        /\ IsPdfPageLabel(ck_in.item.source_label)
               => ComposedObject.drawing_title = ck_in.item.source_label
        /\ ck_in.item.source_label = plan_png
               => ComposedObject.drawing_title = <<"p", "l", "a", "n">>

----------------------------------------------------------------------------
(* drawing_engine.py: _wrap_text_to_lines *)

\* c.stringWidth: the Helvetica glyph widths (1/1000 of the font size) are
\* added up; widths are in 1/1000 pt
CharWidth(ch) ==
    CASE ch = " " -> 278 [] ch = "i" -> 222 [] ch = "W" -> 944 [] OTHER -> 0

RECURSIVE GlyphSum(_)
GlyphSum(s) == IF s = <<>> THEN 0 ELSE CharWidth(Head(s)) + GlyphSum(Tail(s))

w(s, font_size) == GlyphSum(s) * font_size

\* str.split(): the maximal runs of non-whitespace characters
RECURSIVE SplitFrom(_, _, _)
SplitFrom(s, tok, toks) ==
    IF s = <<>> THEN (IF tok = <<>> THEN toks ELSE Append(toks, tok))
    ELSE IF Head(s) \in Whitespace
    THEN SplitFrom(Tail(s), <<>>, IF tok = <<>> THEN toks ELSE Append(toks, tok))
    ELSE SplitFrom(Tail(s), Append(tok, Head(s)), toks)

split(s) == SplitFrom(s, <<>>, <<>>)

push_line(lines, line) ==
    IF strip(line) # <<>> THEN Append(lines, rstrip(line)) ELSE lines

\* mutant: the chunk that overflowed (test) is appended instead of chunk
RECURSIVE BreakFrom_appends_test(_, _, _, _, _)
BreakFrom_appends_test(tok, chunk, chunks, max_width, font_size) ==
    IF tok = <<>> THEN (IF chunk # <<>> THEN Append(chunks, chunk) ELSE chunks)
    ELSE LET ch == Head(tok)
             test == Append(chunk, ch)
         IN  IF w(test, font_size) <= max_width \/ chunk = <<>>
             THEN BreakFrom_appends_test(Tail(tok), test, chunks, max_width, font_size)
             ELSE BreakFrom_appends_test(Tail(tok), <<ch>>, Append(chunks, test),
                                         max_width, font_size)

break_long_token_appends_test(tok, max_width, font_size) ==
    BreakFrom_appends_test(tok, <<>>, <<>>, max_width, font_size)

\* mutant: the width of chunk is measured before the character is added
RECURSIVE BreakFrom_measures_chunk(_, _, _, _, _)
BreakFrom_measures_chunk(tok, chunk, chunks, max_width, font_size) ==
    IF tok = <<>> THEN (IF chunk # <<>> THEN Append(chunks, chunk) ELSE chunks)
    ELSE LET ch == Head(tok)
             test == Append(chunk, ch)
         IN  IF w(chunk, font_size) <= max_width \/ chunk = <<>>
             THEN BreakFrom_measures_chunk(Tail(tok), test, chunks, max_width, font_size)
             ELSE BreakFrom_measures_chunk(Tail(tok), <<ch>>, Append(chunks, chunk),
                                           max_width, font_size)

break_long_token_measures_chunk(tok, max_width, font_size) ==
    BreakFrom_measures_chunk(tok, <<>>, <<>>, max_width, font_size)

\* the loop of break_long_token over the characters of tok
RECURSIVE BreakFrom(_, _, _, _, _)
BreakFrom(tok, chunk, chunks, max_width, font_size) ==
    IF tok = <<>> THEN (IF chunk # <<>> THEN Append(chunks, chunk) ELSE chunks)
    ELSE LET ch == Head(tok)
             test == Append(chunk, ch)
         IN  IF w(test, font_size) <= max_width \/ chunk = <<>>
             THEN BreakFrom(Tail(tok), test, chunks, max_width, font_size)
             ELSE BreakFrom(Tail(tok), <<ch>>, Append(chunks, chunk),
                            max_width, font_size)

break_long_token(tok, max_width, font_size) ==
    BreakFrom(tok, <<>>, <<>>, max_width, font_size)

RECURSIVE PushAll(_, _)
PushAll(lines, chunks) ==
    IF chunks = <<>> THEN lines
    ELSE PushAll(push_line(lines, Head(chunks)), Tail(chunks))

\* mutant: current is not pushed before the chunks of a long token
RECURSIVE WrapFrom_drops_current(_, _, _, _, _)
WrapFrom_drops_current(tokens, current, lines, max_width, font_size) ==
    IF tokens = <<>>
    THEN (IF current # <<>> THEN push_line(lines, current) ELSE lines)
    ELSE LET tok == Head(tokens)
         IN  IF w(tok, font_size) > max_width
             THEN WrapFrom_drops_current(Tail(tokens), <<>>,
                           PushAll(lines, break_long_token(tok, max_width, font_size)),
                           max_width, font_size)
             ELSE LET candidate == IF current = <<>> THEN tok
                                   ELSE current \o <<" ">> \o tok
                  IN  IF w(candidate, font_size) <= max_width
                      THEN WrapFrom_drops_current(Tail(tokens), candidate, lines,
                                                  max_width, font_size)
                      ELSE WrapFrom_drops_current(Tail(tokens), tok,
                                                  push_line(lines, current),
                                                  max_width, font_size)

\* the loop over the tokens, then the final push of current
RECURSIVE WrapFrom(_, _, _, _, _)
WrapFrom(tokens, current, lines, max_width, font_size) ==
    IF tokens = <<>>
    THEN (IF current # <<>> THEN push_line(lines, current) ELSE lines)
    ELSE LET tok == Head(tokens)
         IN  IF w(tok, font_size) > max_width
             THEN WrapFrom(Tail(tokens), <<>>,
                           PushAll(IF current # <<>> THEN push_line(lines, current)
                                   ELSE lines,
                                   break_long_token(tok, max_width, font_size)),
                           max_width, font_size)
             ELSE LET candidate == IF current = <<>> THEN tok
                                   ELSE current \o <<" ">> \o tok
                  IN  IF w(candidate, font_size) <= max_width
                      THEN WrapFrom(Tail(tokens), candidate, lines, max_width, font_size)
                      ELSE WrapFrom(Tail(tokens), tok, push_line(lines, current),
                                    max_width, font_size)

_wrap_text_to_lines(text, max_width, font_size) ==
    LET t == strip(remove_cr(text))
    IN  IF t = <<>> THEN <<>>
        ELSE WrapFrom(split(t), <<>>, <<>>, max_width, font_size)

\* " ".join(lines)
RECURSIVE join_spaces(_)
join_spaces(lines) ==
    IF lines = <<>> THEN <<>>
    ELSE IF Len(lines) = 1 THEN lines[1]
    ELSE lines[1] \o <<" ">> \o join_spaces(Tail(lines))

----------------------------------------------------------------------------
(* _wrap_text_to_lines over drawn inputs: the text is wrapped, then the    *)
(* lines joined by spaces are wrapped again at the same width              *)

WrapWidths == {1000, 1998, 4000, 8000, 8496, 10500, 17000, 30000}

WrapInputs ==
    [text : StringsUpTo({"i", "W", " ", "\n", "\r"}, MaxText),
     max_width : WrapWidths,
     font_size : {9}]

WrapInit ==
    /\ ck_in \in WrapInputs
    /\ ck_out = <<>>
    /\ ck_pc = "ready"
    /\ ExportIdle /\ GuiIdle

WrapCall ==
    /\ ck_pc = "ready"
    /\ ck_out' = <<_wrap_text_to_lines(ck_in.text, ck_in.max_width, ck_in.font_size)>>
    /\ ck_pc' = "wrapped"
    /\ UNCHANGED ck_in
    /\ UNCHANGED <<exportVars, guiVars>>

RewrapCall ==
    /\ ck_pc = "wrapped"
    /\ ck_out' = Append(ck_out, _wrap_text_to_lines(join_spaces(ck_out[1]),
                                                    ck_in.max_width, ck_in.font_size))
    /\ ck_pc' = "rewrapped"
    /\ UNCHANGED ck_in
    /\ UNCHANGED <<exportVars, guiVars>>

WrapNext == WrapCall \/ RewrapCall

SpecWrap == WrapInit /\ [][WrapNext]_vars

LineFits(line) ==
    \/ w(line, ck_in.font_size) <= ck_in.max_width
    \/ Len(line) = 1

\* C9: every line returned for a max_width > 0 measures at most max_width
\* or is a single character.
C9_LinesFitOrSingleChar ==
    \A r \in 1..Len(ck_out) : \A n \in 1..Len(ck_out[r]) : LineFits(ck_out[r][n])

C9_Witness ==
    /\ ck_pc = "wrapped"
    /\ \E a, b \in 1..Len(ck_out[1]) :
           /\ Len(ck_out[1][a]) = 1
           /\ w(ck_out[1][a], ck_in.font_size) > ck_in.max_width
           /\ Len(ck_out[1][b]) > 1
           /\ ck_out[1][b] \notin {split(ck_in.text)[t] : t \in 1..Len(split(ck_in.text))}

\* the whitespace-separated tokens of the lines, in order
RECURSIVE LinesTokens(_)
LinesTokens(lines) ==
    IF lines = <<>> THEN <<>> ELSE split(Head(lines)) \o LinesTokens(Tail(lines))

\* C10: wrapping the lines joined by single spaces at the same width gives
\* lines with the same token sequence as the lines of the first wrapping.
C10_RewrapKeepsTokens ==
    ck_pc = "rewrapped" => LinesTokens(ck_out[2]) = LinesTokens(ck_out[1])

C10_Witness ==
    /\ ck_pc = "rewrapped"
    /\ ck_out[2] # ck_out[1]
    /\ Len(LinesTokens(ck_out[1])) > Len(split(ck_in.text))

----------------------------------------------------------------------------
(* drawing_engine.py: _draw_wrapped_text.  Coordinates and heights are in  *)
(* 1/1000 pt like the text widths; font_size and leading are whole points. *)
(* The y of a drawn line is kept doubled, the middle alignment halves.     *)

\* mutant: the budget is rounded up instead of down
max_lines_rounded_up(max_height, lead, n) ==
    IF max_height > 0 THEN (max_height + lead - 1) \div lead ELSE n

\* line 348: int(max_height // leading) if max_height > 0 else len(lines)
max_lines(max_height, lead, n) ==
    IF max_height > 0 THEN max_height \div lead ELSE n

\* lines[:k] for k >= 0
first_lines(lines, k) == SubSeq(lines, 1, IF k < Len(lines) THEN k ELSE Len(lines))

\* lines 353-358, doubled
start_y2(y, max_height, block_h, lead, valign) ==
    IF valign = "bottom" THEN 2 * (y + 2000 + (block_h - lead))
    ELSE IF valign = "middle" THEN 2 * y + max_height + block_h - 2 * lead
    ELSE 2 * (y + max_height - lead)

\* the c.drawString calls made, in order
_draw_wrapped_text(text, x, y, max_width, max_height, font_size, leading, valign) ==
    LET t == strip(text)
    IN  IF t = <<>> THEN <<>>
        ELSE LET all == _wrap_text_to_lines(t, max_width, font_size)
                 lead == 1000 * (IF leading <= 0 THEN font_size + 2 ELSE leading)
                 lines == first_lines(all, max_lines(max_height, lead, Len(all)))
                 block_h == Len(lines) * lead
                 top2 == start_y2(y, max_height, block_h, lead, valign)
             IN  [n \in 1..Len(lines) |->
                     [x |-> x, y2 |-> top2 - 2 * (n - 1) * lead, text |-> lines[n]]]

DrawInputs ==
    [text : StringsUpTo({"i", "W", " "}, MaxText),
     max_width : {8496, 17000},
     max_height : {-5000, 0, 500, 11000, 25000, 28000, 60000},
     font_size : {9},
     leading : {0, 14},
     valign : {"top", "middle", "bottom"}]

DrawInit ==
    /\ ck_in \in DrawInputs
    /\ ck_out = <<>>
    /\ ck_pc = "ready"
    /\ ExportIdle /\ GuiIdle

DrawCall ==
    /\ ck_pc = "ready"
    /\ ck_out' = <<_draw_wrapped_text(ck_in.text, 6000, 6000, ck_in.max_width,
                                      ck_in.max_height, ck_in.font_size,
                                      ck_in.leading, ck_in.valign)>>
    /\ ck_pc' = "drawn"
    /\ UNCHANGED ck_in
    /\ UNCHANGED <<exportVars, guiVars>>

SpecDraw == DrawInit /\ [][DrawCall]_vars

WrappedInput == _wrap_text_to_lines(ck_in.text, ck_in.max_width, ck_in.font_size)

EffectiveLeading == 1000 * (IF ck_in.leading <= 0 THEN ck_in.font_size + 2 ELSE ck_in.leading)

\* floor(max_height / leading), for either sign of max_height
LineBudget == CHOOSE k \in -10..100 :
    k * EffectiveLeading <= ck_in.max_height /\ ck_in.max_height < (k + 1) * EffectiveLeading

DrawnTexts == [n \in 1..Len(ck_out[1]) |-> ck_out[1][n].text]

FirstOf(lines, k) == [n \in 1..(IF k < 0 THEN 0 ELSE IF k < Len(lines) THEN k ELSE Len(lines)) |-> lines[n]]

\* C11 as stated: for every area height the lines drawn are the first
\* min(number of wrapped lines, floor(max_height / leading)) wrapped lines.
C11_DrawsBudgetForEveryHeight ==
    ck_pc = "drawn" => DrawnTexts = FirstOf(WrappedInput, LineBudget)

\* C11 amended: for max_height > 0 the lines drawn are the first
\* min(number of wrapped lines, floor(max_height / leading)) wrapped lines,
\* in order; for max_height <= 0 every wrapped line is drawn.
C11_DrawsBudgetForPositiveHeight ==
    ck_pc = "drawn" =>
        /\ ck_in.max_height > 0 => DrawnTexts = FirstOf(WrappedInput, LineBudget)
        /\ ck_in.max_height <= 0 => DrawnTexts = WrappedInput
        /\ \A n \in 1..(Len(ck_out[1]) - 1) :
               ck_out[1][n].y2 - ck_out[1][n + 1].y2 = 2 * EffectiveLeading

C11_Witness ==
    /\ ck_pc = "drawn"
    /\ ck_in.max_height > 0
    /\ ck_in.leading <= 0
    /\ LineBudget = 2
    /\ Len(WrappedInput) > 2
    /\ Len(ck_out[1]) = 2

----------------------------------------------------------------------------
(* drawing_engine.py: the rectangle _draw_image_fitted hands to drawImage. *)
(* The box is in whole points.  The rectangle is exact: its coordinates    *)
(* are kept multiplied by scale = 2 * im_w * im_h, the only denominators   *)
(* the divisions by the aspect ratio and by 2.0 can produce.               *)

Max2(a, b) == IF a > b THEN a ELSE b

\* lines 216-221: the box less the inner padding, at least 1 wide and high
padded_box(box, inner_pad) ==
    [x |-> box.x + inner_pad, y |-> box.y + inner_pad,
     w |-> Max2(1, box.w - 2 * inner_pad), h |-> Max2(1, box.h - 2 * inner_pad)]

\* lines 240-246, scaled: img_aspect > box_aspect is im_w * h2 > w2 * im_h
fit_size(w2, h2, im_w, im_h) ==
    IF im_w * h2 > w2 * im_h
    THEN [w |-> w2 * 2 * im_w * im_h, h |-> w2 * 2 * im_h * im_h]
    ELSE [w |-> h2 * 2 * im_w * im_w, h |-> h2 * 2 * im_w * im_h]

\* lines 247-253, scaled
fill_size(w2, h2, im_w, im_h) ==
    IF im_w * h2 > w2 * im_h
    THEN [w |-> h2 * 2 * im_w * im_w, h |-> h2 * 2 * im_w * im_h]
    ELSE [w |-> w2 * 2 * im_w * im_h, h |-> w2 * 2 * im_h * im_h]

\* lines 255-256, scaled: x2 + (w2 - draw_w) / 2.0
centered(lo, extent, drawn, scale) == lo * scale + (extent * scale - drawn) \div 2

placed(pb, size, im_w, im_h) ==
    LET scale == 2 * im_w * im_h
    IN  <<[x |-> centered(pb.x, pb.w, size.w, scale),
           y |-> centered(pb.y, pb.h, size.h, scale),
           w |-> size.w, h |-> size.h, scale |-> scale]>>

\* mutant: the image is anchored at the corner of the padded box
fitted_rect_at_corner(box, im_w, im_h, fit_mode, inner_pad) ==
    LET pb == padded_box(box, inner_pad)
        size == IF fit_mode = "fill" THEN fill_size(pb.w, pb.h, im_w, im_h)
                ELSE fit_size(pb.w, pb.h, im_w, im_h)
    IN  IF im_w <= 0 \/ im_h <= 0 THEN <<>>
        ELSE <<[x |-> pb.x * 2 * im_w * im_h, y |-> pb.y * 2 * im_w * im_h,
                w |-> size.w, h |-> size.h, scale |-> 2 * im_w * im_h]>>

\* mutant: fill takes the same branch as fit
fitted_rect_fill_contains(box, im_w, im_h, fit_mode, inner_pad) ==
    LET pb == padded_box(box, inner_pad)
    IN  IF im_w <= 0 \/ im_h <= 0 THEN <<>>
        ELSE placed(pb, fit_size(pb.w, pb.h, im_w, im_h), im_w, im_h)

\* mutant: fill stretches the image over the padded box
fitted_rect_fill_stretches(box, im_w, im_h, fit_mode, inner_pad) ==
    LET pb == padded_box(box, inner_pad)
        size == IF fit_mode = "fill"
                THEN [w |-> pb.w * 2 * im_w * im_h, h |-> pb.h * 2 * im_w * im_h]
                ELSE fit_size(pb.w, pb.h, im_w, im_h)
    IN  IF im_w <= 0 \/ im_h <= 0 THEN <<>>
        ELSE placed(pb, size, im_w, im_h)

\* lines 216-256: <<>> when nothing is drawn, else the rectangle drawn
fitted_rect(box, im_w, im_h, fit_mode, inner_pad) ==
    LET pb == padded_box(box, inner_pad)
        mode == IF fit_mode \notin {"fit", "fill"} THEN "fit" ELSE fit_mode
        size == IF mode = "fit" THEN fit_size(pb.w, pb.h, im_w, im_h)
                ELSE fill_size(pb.w, pb.h, im_w, im_h)
    IN  IF im_w <= 0 \/ im_h <= 0 THEN <<>>
        ELSE placed(pb, size, im_w, im_h)

FitInputs ==
    [box : [x : {0, 18}, y : {18},
            w : {5, 12, 13, 14, 100, 300}, h : {5, 12, 13, 14, 100, 300}],
     im_w : {0, 1, 2, 3, 5, 8}, im_h : {0, 1, 2, 3, 5, 8},
     fit_mode : {"fit", "fill", "stretch"},
     inner_pad : {6}]

FitInit ==
    /\ ck_in \in FitInputs
    /\ ck_out = <<>>
    /\ ck_pc = "ready"
    /\ ExportIdle /\ GuiIdle

FitCall ==
    /\ ck_pc = "ready"
    /\ ck_out' = fitted_rect(ck_in.box, ck_in.im_w, ck_in.im_h, ck_in.fit_mode,
                             ck_in.inner_pad)
    /\ ck_pc' = "placed"
    /\ UNCHANGED ck_in
    /\ UNCHANGED <<exportVars, guiVars>>

SpecFit == FitInit /\ [][FitCall]_vars

\* rectangle r (scaled) lies within [x, x + w] x [y, y + h] (unscaled)
RectWithin(r, x, y, wd, ht) ==
    /\ x * r.scale <= r.x /\ r.x + r.w <= (x + wd) * r.scale
    /\ y * r.scale <= r.y /\ r.y + r.h <= (y + ht) * r.scale

RectCentredOn(r, x, y, wd, ht) ==
    /\ r.x - x * r.scale = (x + wd) * r.scale - (r.x + r.w)
    /\ r.y - y * r.scale = (y + ht) * r.scale - (r.y + r.h)

RectKeepsAspect(r) == r.w * ck_in.im_h = r.h * ck_in.im_w

\* the box shrunk by the inner padding on all four sides
ShrunkBox ==
    [x |-> ck_in.box.x + ck_in.inner_pad, y |-> ck_in.box.y + ck_in.inner_pad,
     w |-> ck_in.box.w - 2 * ck_in.inner_pad, h |-> ck_in.box.h - 2 * ck_in.inner_pad]

PaddedBoxOfInput == padded_box(ck_in.box, ck_in.inner_pad)

FitPlacement(r) ==
    /\ RectWithin(r, ck_in.box.x, ck_in.box.y, ck_in.box.w, ck_in.box.h)
    /\ RectWithin(r, ShrunkBox.x, ShrunkBox.y, ShrunkBox.w, ShrunkBox.h)
    /\ \/ r.x = PaddedBoxOfInput.x * r.scale /\ r.w = PaddedBoxOfInput.w * r.scale
       \/ r.y = PaddedBoxOfInput.y * r.scale /\ r.h = PaddedBoxOfInput.h * r.scale
    /\ RectCentredOn(r, PaddedBoxOfInput.x, PaddedBoxOfInput.y,
                     PaddedBoxOfInput.w, PaddedBoxOfInput.h)
    /\ RectKeepsAspect(r)

FitCase ==
    ck_pc = "placed" /\ ck_in.fit_mode = "fit" /\ ck_in.im_w > 0 /\ ck_in.im_h > 0

\* C12 as stated: in fit mode the placement holds for every box.
C12_FitInsideEveryBox == FitCase => ck_out # <<>> /\ FitPlacement(ck_out[1])

\* C12 amended: in fit mode, for every box at least 2 * padding + 1 wide and
\* high and every positive natural size, the rectangle lies inside the box
\* and inside the box shrunk by the padding, touches a pair of opposite
\* edges of the shrunk box, is centred in it and keeps the natural aspect.
C12_FitInsideRoomyBox ==
    (FitCase /\ ShrunkBox.w >= 1 /\ ShrunkBox.h >= 1)
        => ck_out # <<>> /\ FitPlacement(ck_out[1])

C12_Witness ==
    /\ FitCase
    /\ ShrunkBox.w >= 1 /\ ShrunkBox.h >= 1
    /\ ck_in.im_w * ShrunkBox.h # ShrunkBox.w * ck_in.im_h
    /\ ck_out[1].w < ShrunkBox.w * ck_out[1].scale
    /\ ck_out[1].h = ShrunkBox.h * ck_out[1].scale

FillCase ==
    ck_pc = "placed" /\ ck_in.fit_mode = "fill" /\ ck_in.im_w > 0 /\ ck_in.im_h > 0

\* C13: in fill mode the rectangle covers the padded box: it is at least as
\* wide and as high, equal in one of the two, centred on both axes, and
\* keeps the natural aspect ratio.
C13_FillCoversPaddedBox ==
    FillCase =>
        /\ ck_out # <<>>
        /\ LET r == ck_out[1]
               pb == PaddedBoxOfInput
           IN  /\ r.w >= pb.w * r.scale /\ r.h >= pb.h * r.scale
               /\ r.w = pb.w * r.scale \/ r.h = pb.h * r.scale
               /\ r.x <= pb.x * r.scale /\ r.x + r.w >= (pb.x + pb.w) * r.scale
               /\ r.y <= pb.y * r.scale /\ r.y + r.h >= (pb.y + pb.h) * r.scale
               /\ RectCentredOn(r, pb.x, pb.y, pb.w, pb.h)
               /\ RectKeepsAspect(r)

C13_Witness ==
    /\ FillCase
    /\ ck_out[1].w > PaddedBoxOfInput.w * ck_out[1].scale
    /\ ck_out[1].h = PaddedBoxOfInput.h * ck_out[1].scale
    /\ ck_out[1].x < PaddedBoxOfInput.x * ck_out[1].scale

InsidePaddedBox(r) ==
    RectWithin(r, PaddedBoxOfInput.x, PaddedBoxOfInput.y,
               PaddedBoxOfInput.w, PaddedBoxOfInput.h)

\* C14 as stated: in fill mode the rectangle stays inside the padded box.
C14_FillStaysInside == FillCase => ck_out # <<>> /\ InsidePaddedBox(ck_out[1])

SameAspect == ck_in.im_w * PaddedBoxOfInput.h = PaddedBoxOfInput.w * ck_in.im_h

\* C14 amended: fill is a cover mode; its rectangle stays inside the padded
\* box exactly when the image and the padded box have the same aspect
\* ratio, and then it is the rectangle of fit mode; otherwise it keeps the
\* aspect ratio and sticks out of the padded box.
C14_FillInsideOnlyAtSameAspect ==
    FillCase =>
        /\ ck_out # <<>>
        /\ InsidePaddedBox(ck_out[1]) <=> SameAspect
        /\ RectKeepsAspect(ck_out[1])
        /\ SameAspect => ck_out = fitted_rect(ck_in.box, ck_in.im_w, ck_in.im_h,
                                              "fit", ck_in.inner_pad)

C14_Witness ==
    /\ FillCase
    /\ ~SameAspect
    /\ ck_out[1].h > PaddedBoxOfInput.h * ck_out[1].scale
    /\ ck_out[1].y + ck_out[1].h > (PaddedBoxOfInput.y + PaddedBoxOfInput.h) * ck_out[1].scale

----------------------------------------------------------------------------
(* drawing_engine.py: where _render_one_sheet puts the viewport and        *)
(* _draw_iso_title_block the strip and its five bands.  TEMPLATES holds    *)
(* page sizes in 1/127 pt; lengths here are in 1/(127 * LayoutScale) pt so *)
(* that tb_h * 0.22, top_h / 3.0 and tb_w * 0.42 are whole numbers.        *)

LayoutScale == 150

Pt(n) == n * 127 * LayoutScale

\* mutant: the viewport takes the whole width between the margins
viewport_full_width(page_w, page_h, st) ==
    [x |-> st.page_margin_pt, y |-> st.page_margin_pt,
     w |-> page_w - st.page_margin_pt * 2,
     h |-> page_h - st.page_margin_pt * 2 - st.header_height_pt]

\* _render_one_sheet lines 175-182
viewport(page_w, page_h, st) ==
    [x |-> st.page_margin_pt, y |-> st.page_margin_pt,
     w |-> page_w - st.page_margin_pt * 2 - st.title_block_width_pt,
     h |-> page_h - st.page_margin_pt * 2 - st.header_height_pt]

\* mutant: the comments band takes what is left, without the floor
comments_height_unfloored(tb_h, fixed) == tb_h - fixed

\* line 534: comments_h = max(140.0, tb_h - fixed)
comments_height(tb_h, fixed) == Max2(Pt(140), tb_h - fixed)

\* _draw_iso_title_block lines 516-563; top_cells are the rectangles of the
\* ISSUER, PROJECT and CLIENT cells, logo_box the rectangle of line 562
title_block_bands(page_w, page_h, st) ==
    LET margin == st.page_margin_pt
        tb_w == st.title_block_width_pt
        tb_x == page_w - margin - tb_w
        tb_y == margin
        tb_h == page_h - 2 * margin
        sign_h == Pt(95)
        info_h == Pt(90)
        title_h == Pt(150)
        top_h == Max2(Pt(150), (tb_h * 22) \div 100)
        fixed == sign_h + info_h + title_h + top_h
        comments_h == comments_height(tb_h, fixed)
        y0 == tb_y
        y1 == y0 + sign_h
        y2 == y1 + comments_h
        y3 == y2 + info_h
        y4 == y3 + title_h
        y5 == tb_y + tb_h
        logo_col_w == (tb_w * 42) \div 100
        text_col_w == tb_w - logo_col_w
        logo_x == tb_x + text_col_w
        cell_h == top_h \div 3
    IN  [tb_x |-> tb_x, tb_y |-> tb_y, tb_w |-> tb_w, tb_h |-> tb_h,
         sign_h |-> sign_h, info_h |-> info_h, title_h |-> title_h,
         top_h |-> top_h, fixed |-> fixed, comments_h |-> comments_h,
         y0 |-> y0, y1 |-> y1, y2 |-> y2, y3 |-> y3, y4 |-> y4, y5 |-> y5,
         top_cells |-> [k \in 1..3 |-> [x |-> tb_x, y |-> y5 - k * cell_h,
                                        w |-> text_col_w, h |-> cell_h]],
         logo_box |-> [x |-> logo_x, y |-> y4, w |-> logo_col_w, h |-> top_h]]

LayoutInputs ==
    [page : { [w |-> TEMPLATES[n][1] * LayoutScale, h |-> TEMPLATES[n][2] * LayoutScale] :
                  n \in DOMAIN TEMPLATES }
            \cup [w : {Pt(600)}, h : {Pt(400), Pt(500), Pt(661), Pt(720)}],
     settings : [page_margin_pt : {0, Pt(18), Pt(36)},
                 title_block_width_pt : {Pt(180), Pt(210), Pt(240)},
                 header_height_pt : {0, Pt(20), Pt(40)}]]

LayoutInit ==
    /\ ck_in \in LayoutInputs
    /\ ck_out = <<>>
    /\ ck_pc = "ready"
    /\ ExportIdle /\ GuiIdle

LayoutCall ==
    /\ ck_pc = "ready"
    /\ ck_out' = [viewport |-> viewport(ck_in.page.w, ck_in.page.h, ck_in.settings),
                  bands |-> title_block_bands(ck_in.page.w, ck_in.page.h,
                                              ck_in.settings)]
    /\ ck_pc' = "laid_out"
    /\ UNCHANGED ck_in
    /\ UNCHANGED <<exportVars, guiVars>>

SpecLayout == LayoutInit /\ [][LayoutCall]_vars

LaidOut == ck_pc = "laid_out"

\* the four bands of fixed height, as the claim sums them
FourFixedBands(tb_h) ==
    Pt(95) + Pt(90) + Pt(150) + Max2(Pt(150), (22 * tb_h) \div 100)

CommentsBandHeight(b) ==
    /\ b.comments_h = Max2(Pt(140), b.tb_h - FourFixedBands(b.tb_h))
    /\ b.comments_h >= Pt(140)

BandsFillStrip(b) ==
    /\ b.y4 + b.top_h = b.tb_y + b.tb_h
    /\ b.sign_h + b.comments_h + b.info_h + b.title_h + b.top_h = b.tb_h

\* C15 as stated: the comments band is max(140, strip height - fixed bands),
\* and the bands fill the strip whenever the fixed bands fit the strip.
C15_BandsFillWhenFixedFit ==
    LaidOut =>
        /\ CommentsBandHeight(ck_out.bands)
        /\ FourFixedBands(ck_out.bands.tb_h) <= ck_out.bands.tb_h
               => BandsFillStrip(ck_out.bands)

\* C15 amended: the comments band is max(140, strip height - fixed bands),
\* never below 140pt; the five bands fill the strip exactly when and only
\* when the fixed bands leave at least 140pt; otherwise the top band ends
\* above the strip's top edge by 140pt less what the fixed bands leave.
C15_BandsFillWhenFloorFits ==
    LaidOut =>
        LET b == ck_out.bands
            left == b.tb_h - FourFixedBands(b.tb_h)
        IN  /\ CommentsBandHeight(b)
            /\ BandsFillStrip(b) <=> left >= Pt(140)
            /\ left < Pt(140) => b.y4 + b.top_h = b.tb_y + b.tb_h + (Pt(140) - left)

C15_Witness ==
    /\ LaidOut
    /\ ck_out.bands.tb_h - ck_out.bands.fixed > Pt(140)
    /\ ck_out.bands.top_h > Pt(150)
    /\ ck_out.bands.comments_h = ck_out.bands.tb_h - ck_out.bands.fixed
    /\ BandsFillStrip(ck_out.bands)

\* C16: the viewport is the page less the margin on each side, the title
\* block width on the right and the header height at the top; its right
\* edge is the strip's left edge; the strip lies at the right margin and
\* spans the page height less the top and bottom margins.
C16_ViewportMeetsStrip ==
    LaidOut =>
        LET v == ck_out.viewport
            b == ck_out.bands
            st == ck_in.settings
            m == st.page_margin_pt
        IN  /\ v.x = m /\ v.y = m
            /\ v.x + v.w = ck_in.page.w - m - st.title_block_width_pt
            /\ v.y + v.h = ck_in.page.h - m - st.header_height_pt
            /\ v.x + v.w = b.tb_x
            /\ b.tb_x + b.tb_w = ck_in.page.w - m
            /\ b.tb_w = st.title_block_width_pt
            /\ b.tb_y = m
            /\ b.tb_y + b.tb_h = ck_in.page.h - m

C16_Witness ==
    /\ LaidOut
    /\ ck_in.settings.page_margin_pt > 0
    /\ ck_in.settings.header_height_pt > 0
    /\ ck_out.viewport.w > 0 /\ ck_out.viewport.h > 0
    /\ ck_out.viewport.x + ck_out.viewport.w = ck_out.bands.tb_x
    /\ ck_out.viewport.y + ck_out.viewport.h < ck_out.bands.tb_y + ck_out.bands.tb_h

----------------------------------------------------------------------------
(* export_sheet_plan_to_pdf: unknown kinds and unknown template names *)

\* the kind is not one of the two values image and pdf
OtherKindItem(item) == item.kind \notin {KindImage, KindPdf}

\* the kind, lower-cased as line 92 does, is neither image nor pdf
UnknownKindItem(item) == lower(item.kind) \notin {KindImage, KindPdf}

AbortsAt(Unknown(_)) ==
    (\E k \in 1..Len(sheet_plan) : Unknown(sheet_plan[k])) =>
        /\ canvas.saves = 0 /\ canvas.saved_pages = <<>>
        /\ pc \notin {"save", "done"}
        /\ \A k \in 1..Len(canvas.pages) : ~Unknown(sheet_plan[k])
        /\ (idx >= 1 /\ Unknown(sheet_plan[idx]))
               => /\ pc \in {"convert", "raised"}
                  /\ Len(canvas.pages) = idx - 1
                  /\ pc = "raised" => error = <<"ValueError">>

\* C17 as stated: an item whose kind is any value other than image and pdf
\* makes the call raise a validation error, gets no page, and the document
\* is not saved.
C17_OtherKindAborts == AbortsAt(OtherKindItem)

\* C17 amended: an item whose lower-cased kind is neither image nor pdf
\* makes the call raise a validation error when the loop reaches it; no
\* page is emitted for it and the document is never saved.
C17_UnknownKindAborts == AbortsAt(UnknownKindItem)

C17_Witness ==
    /\ pc = "raised"
    /\ idx = 2
    /\ sheet_plan[2].kind = <<"d", "w", "g">>
    /\ ImageReadable(sheet_plan[2].source_path)
    /\ Len(canvas.pages) = 1
    /\ error = <<"ValueError">>

RegisteredTemplateNames == {"A4_Landscape", "A4_Portrait", "A3_Landscape", "A3_Portrait"}

\* 420mm x 297mm, 1mm being 360/127 pt
A3LandscapeSize == <<420 * 360, 297 * 360>>

\* C19: get_template returns the template of that name for each of the four
\* registered names and the A3_Landscape template for every other name; an
\* export with an unknown template name creates its canvas and every page
\* with the A3 landscape size, and does not fail because of the name.
C19_UnknownTemplateIsA3Landscape ==
    /\ \A n \in RegisteredTemplateNames :
           get_template(n) = [name |-> n, pagesize |-> TEMPLATES[n]]
    /\ \A n \in TemplateNames \ RegisteredTemplateNames :
           get_template(n) = [name |-> "A3_Landscape", pagesize |-> A3LandscapeSize]
    /\ settings.template_name \notin RegisteredTemplateNames =>
           /\ canvas.created => canvas.pagesize = A3LandscapeSize
           /\ \A k \in 1..Len(canvas.pages) : canvas.pages[k].size = A3LandscapeSize
           /\ \A k \in 1..Len(canvas.saved_pages) :
                  canvas.saved_pages[k].size = A3LandscapeSize
           /\ (sheet_plan # <<>> /\ pc # "start") => canvas.created
           /\ GoodPlan => pc # "raised"

C19_Witness ==
    /\ settings.template_name = "Letter"
    /\ pc = "done"
    /\ Len(canvas.saved_pages) = 2
    /\ canvas.saved_pages[2].size = A3LandscapeSize
    /\ canvas.saved_pages[2].size[1] > canvas.saved_pages[2].size[2]

----------------------------------------------------------------------------
(* gui.py: the main window.  gui holds the fields of MainWindow and the    *)
(* content of its widgets; a text is a sequence of characters, a combo box *)
(* is its current text.                                                    *)

JOB_FILE_VERSION == 1
JOB_EXT == <<".", "e", "d", "m", "j", "o", "b">>

sub_p_png == <<"s", "/", "p", ".", "p", "n", "g">>

LineEdits == {"output_pdf"} \cup TitleBlockFields

TemplateItems == DOMAIN TEMPLATES
FitItems == {"fit", "fill"}

\* QComboBox.setCurrentText on a non-editable box: only a listed text is taken
setCurrentText(items, current, text) == IF text \in items THEN text ELSE current

\* __init__, lines 63-80 and 174-181: the window as constructed
NewWindow ==
    [_files |-> <<>>, _sheet_plan |-> <<>>, _job_path |-> <<>>,
     _dirty |-> FALSE, _loading |-> FALSE,
     file_list |-> <<>>, sheet_table |-> <<>>,
     line |-> [f \in LineEdits |-> <<>>],
     cmb_template |-> "A3_Landscape", cmb_fit |-> "fit",
     closed |-> FALSE]

\* lines 389-394
_mark_dirty(g) == IF g._loading THEN g ELSE [g EXCEPT !._dirty = TRUE]

\* lines 396-398
_set_clean(g) == [g EXCEPT !._dirty = FALSE]

\* line 729: {i.source_label: i for i in self._sheet_plan}, the last one wins
RECURSIVE old_by_label(_, _)
old_by_label(plan, label) ==
    IF plan = <<>> THEN <<>>
    ELSE IF plan[Len(plan)].source_label = label THEN <<plan[Len(plan)]>>
    ELSE old_by_label(SubSeq(plan, 1, Len(plan) - 1), label)

\* lines 737-743: fitz.open(p).page_count, 0 when the file does not open
page_count(path) == IF PdfOpens(path) THEN PdfPageCount(path) ELSE 0

\* lines 733-771: the sheets of one file
sheets_of_file(path, old_plan) ==
    LET ext == lower(splitext(path)[2])
        base == basename(path)
    IN  IF ext = <<".", "p", "d", "f">>
        THEN [i \in 1..page_count(path) |->
                 LET label == pdf_page_label(base, i - 1)
                     prev == old_by_label(old_plan, label)
                 IN  SheetPlanItem(KindPdf, path, label, <<i - 1>>,
                         IF prev # <<>> THEN prev[1].drawing_title ELSE <<>>,
                         IF prev # <<>> THEN prev[1].comments ELSE <<>>)]
        ELSE LET prev == old_by_label(old_plan, base)
             IN  <<SheetPlanItem(KindImage, path, base, <<>>,
                       IF prev # <<>> THEN prev[1].drawing_title ELSE <<>>,
                       IF prev # <<>> THEN prev[1].comments ELSE <<>>)>>

RECURSIVE plan_of_files(_, _)
plan_of_files(files, old_plan) ==
    IF files = <<>> THEN <<>>
    ELSE sheets_of_file(Head(files), old_plan) \o plan_of_files(Tail(files), old_plan)

\* lines 775-802: one row per sheet; _loading is set and cleared around it
_refresh_sheet_table(g) ==
    [g EXCEPT !._loading = FALSE,
              !.sheet_table =
                  [r \in 1..Len(g._sheet_plan) |->
                      [sheet |-> int_to_str(r),
                       source |-> g._sheet_plan[r].source_label,
                       drawing_title |-> g._sheet_plan[r].drawing_title,
                       comments |-> g._sheet_plan[r].comments]]]

\* lines 724-773
_rebuild_sheet_plan(g) ==
    _refresh_sheet_table([g EXCEPT !._sheet_plan = plan_of_files(g._files, g._sheet_plan)])

\* lines 804-817
_sync_sheet_overrides_from_table(g) ==
    IF g._sheet_plan = <<>> THEN g
    ELSE [g EXCEPT !._sheet_plan =
             [r \in 1..Len(g._sheet_plan) |->
                 IF r <= Len(g.sheet_table)
                 THEN [g._sheet_plan[r] EXCEPT
                          !.drawing_title = strip(g.sheet_table[r].drawing_title),
                          !.comments = strip(g.sheet_table[r].comments)]
                 ELSE g._sheet_plan[r]]]

----------------------------------------------------------------------------
(* gui.py: the job file.  A parsed JSON scalar is a tagged tuple:          *)
(* <<"missing">> (no such key), <<"null">>, <<"int", n>>, <<"float", t>>   *)
(* for t tenths, <<"str", s>>, <<"list", seq>>.                            *)

\* int(x) of Python for the parsed values above; a string is an unsigned
\* numeral between optional whitespace, a float is truncated towards zero
python_int(v) ==
    IF v[1] = "int" THEN [ok |-> TRUE, n |-> v[2], err |-> ""]
    ELSE IF v[1] = "float"
    THEN [ok |-> TRUE, err |-> "",
          n |-> IF v[2] >= 0 THEN v[2] \div 10 ELSE -((-v[2]) \div 10)]
    ELSE IF v[1] = "str"
    THEN IF strip(v[2]) # <<>> /\ \A i \in 1..Len(strip(v[2])) : IsDigit(strip(v[2])[i])
         THEN [ok |-> TRUE, n |-> DecimalValue(strip(v[2])), err |-> ""]
         ELSE [ok |-> FALSE, n |-> 0, err |-> "ValueError"]
    ELSE [ok |-> FALSE, n |-> 0, err |-> "TypeError"]

\* dict.get(key, default) on a key that may be missing
dict_get(v, default) == IF v[1] = "missing" THEN default ELSE v

\* lines 571-602
_build_job_dict(g) ==
    [kind |-> "object",
     version |-> <<"int", JOB_FILE_VERSION>>,
     files |-> <<"list", g._files>>,
     overrides_by_label |->
         [l \in {g._sheet_plan[r].source_label : r \in 1..Len(g._sheet_plan)} |->
             [drawing_title |-> old_by_label(g._sheet_plan, l)[1].drawing_title,
              comments |-> old_by_label(g._sheet_plan, l)[1].comments]],
     ui |-> [line |-> [f \in LineEdits |-> strip(g.line[f])],
             template_name |-> <<g.cmb_template>>,
             fit_mode |-> <<g.cmb_fit>>]]

\* lines 636-641: the overrides of the job applied to the rebuilt plan
apply_overrides(plan, overrides) ==
    [r \in 1..Len(plan) |->
        IF plan[r].source_label \in DOMAIN overrides
        THEN [plan[r] EXCEPT
                 !.drawing_title = overrides[plan[r].source_label].drawing_title,
                 !.comments = overrides[plan[r].source_label].comments]
        ELSE plan[r]]

\* lines 645-663: setText(str(ui.get(key, "") or "")) and
\* setCurrentText(str(ui.get(key, default) or default)); a widget whose
\* content changes signals _mark_dirty
set_ui_fields(g, ui) ==
    LET new_line == [f \in LineEdits |->
                        IF f \in DOMAIN ui.line THEN ui.line[f] ELSE <<>>]
        new_template == setCurrentText(TemplateItems, g.cmb_template,
                            IF ui.template_name = <<>> THEN "A3_Landscape"
                            ELSE ui.template_name[1])
        new_fit == setCurrentText(FitItems, g.cmb_fit,
                       IF ui.fit_mode = <<>> THEN "fit" ELSE ui.fit_mode[1])
        signalled == \/ new_line # g.line
                     \/ new_template # g.cmb_template
                     \/ new_fit # g.cmb_fit
        set == [g EXCEPT !.line = new_line, !.cmb_template = new_template,
                         !.cmb_fit = new_fit]
    IN  IF signalled THEN _mark_dirty(set) ELSE set

\* lines 629-643: the files, the rebuilt plan, the overrides, the table
load_sheets(g, files, overrides) ==
    LET g1 == [g EXCEPT !._loading = TRUE, !._files = files, !.file_list = files]
        g2 == _rebuild_sheet_plan(g1)
        g3 == [g2 EXCEPT !._sheet_plan = apply_overrides(g2._sheet_plan, overrides)]
    IN  _refresh_sheet_table(g3)

\* lines 629-666: the body of _apply_job_dict after validation
load_job(g, files, overrides, ui) ==
    [set_ui_fields(load_sheets(g, files, overrides), ui) EXCEPT !._loading = FALSE]

Loaded(g) == [g |-> g, raised |-> <<>>]
LoadRaises(g, type) == [g |-> g, raised |-> <<type>>]

\* mutant: the version is compared after the job has been loaded
_apply_job_dict_checks_late(g, data) ==
    IF data.kind # "object" THEN LoadRaises(g, "ValueError")
    ELSE IF dict_get(data.files, <<"list", <<>>>>)[1] # "list"
    THEN LoadRaises(g, "ValueError")
    ELSE LET version == python_int(dict_get(data.version, <<"int", 0>>))
             g1 == load_job(g, dict_get(data.files, <<"list", <<>>>>)[2],
                            data.overrides_by_label, data.ui)
         IN  IF ~version.ok THEN LoadRaises(g1, version.err)
             ELSE IF version.n # JOB_FILE_VERSION THEN LoadRaises(g1, "ValueError")
             ELSE Loaded(g1)

\* lines 604-668
_apply_job_dict(g, data) ==
    IF data.kind # "object" THEN LoadRaises(g, "ValueError")
    ELSE LET version == python_int(dict_get(data.version, <<"int", 0>>))
             files == dict_get(data.files, <<"list", <<>>>>)
         IN  IF ~version.ok THEN LoadRaises(g, version.err)
             ELSE IF version.n # JOB_FILE_VERSION THEN LoadRaises(g, "ValueError")
             ELSE IF files[1] # "list" THEN LoadRaises(g, "ValueError")
             ELSE Loaded(load_job(g, files[2], data.overrides_by_label, data.ui))

----------------------------------------------------------------------------
(* gui.py: saving.  Each operator gives the window, the disk and whether   *)
(* the save succeeded.                                                     *)

endswith(s, suffix) ==
    Len(s) >= Len(suffix) /\ SubSeq(s, Len(s) - Len(suffix) + 1, Len(s)) = suffix

job_ro == <<"r", "o", "/", "j">> \o JOB_EXT

\* open(path, "w") fails in the read-only directory
Writable(path) == path # job_ro

SaveResult(g, dk, ok) == [g |-> g, disk |-> dk, ok |-> ok]

\* lines 550-569
_write_job_file(g, dk, path) ==
    LET g1 == _sync_sheet_overrides_from_table(g)
        data == _build_job_dict(g1)
    IN  IF ~Writable(path) THEN SaveResult(g1, dk, FALSE)
        ELSE SaveResult(_set_clean(g1), (path :> data) @@ dk, TRUE)

\* lines 528-548; chosen is <<>> when the dialog is cancelled
_save_job_as(g, dk, chosen) ==
    IF chosen = <<>> THEN SaveResult(g, dk, FALSE)
    ELSE LET path == IF endswith(lower(chosen[1]), JOB_EXT) THEN chosen[1]
                     ELSE chosen[1] \o JOB_EXT
             written == _write_job_file(g, dk, path)
         IN  IF written.ok
             THEN SaveResult(_set_clean([written.g EXCEPT !._job_path = <<path>>]),
                             written.disk, TRUE)
             ELSE written

\* lines 518-526
_save_job(g, dk, chosen) ==
    IF g._job_path = <<>> THEN _save_job_as(g, dk, chosen)
    ELSE _write_job_file(g, dk, g._job_path[1])

\* mutant: a cancelled prompt lets the operation proceed
_maybe_save_changes_cancel_proceeds(g, dk, button, chosen) ==
    IF ~g._dirty THEN SaveResult(g, dk, TRUE)
    ELSE IF button = "Cancel" THEN SaveResult(g, dk, TRUE)
    ELSE IF button = "Discard" THEN SaveResult(g, dk, TRUE)
    ELSE _save_job(g, dk, chosen)

\* lines 424-450; button is the button clicked when the prompt is shown
_maybe_save_changes(g, dk, button, chosen) ==
    IF ~g._dirty THEN SaveResult(g, dk, TRUE)
    ELSE IF button = "Cancel" THEN SaveResult(g, dk, FALSE)
    ELSE IF button = "Discard" THEN SaveResult(g, dk, TRUE)
    ELSE _save_job(g, dk, chosen)

\* what a file dialog for saving a job can return
SaveDialogPaths == {<<>>, <<<<"j">>>>, <<job_ro>>}

----------------------------------------------------------------------------
(* gui.py: the handlers as a state machine.  gui_op.pc is "idle" between   *)
(* handlers and "apply" inside _open_job, after the file has been read.    *)

MaxOps == 4

\* a job file that did not come from this program
ForeignJob(version) ==
    [kind |-> "object",
     version |-> version,
     files |-> <<"list", <<p_png>>>>,
     overrides_by_label |->
         (p_png :> [drawing_title |-> <<"F">>, comments |-> <<>>]),
     ui |-> [line |-> ("project" :> <<"Q">>),
             template_name |-> <<"A4_Portrait">>,
             fit_mode |-> <<>>]]

InitialDisk ==
    (<<"v", "0">> \o JOB_EXT :> ForeignJob(<<"missing">>))
    @@ (<<"v", "1">> \o JOB_EXT :> ForeignJob(<<"int", 1>>))
    @@ (<<"v", "2">> \o JOB_EXT :> ForeignJob(<<"int", 2>>))
    @@ (<<"v", "3">> \o JOB_EXT :> ForeignJob(<<"float", 15>>))
    @@ (<<"v", "4">> \o JOB_EXT :> ForeignJob(<<"str", <<"x">>>>))
    @@ (<<"v", "5">> \o JOB_EXT :> [kind |-> "list"])
    @@ (<<"v", "6">> \o JOB_EXT :> [kind |-> "unreadable"])

OpIdle(name, outcome, n) ==
    [pc |-> "idle", name |-> name, outcome |-> outcome, path |-> <<>>,
     data |-> <<>>, before |-> <<>>, answer |-> <<>>, ops |-> n]

GuiInit ==
    /\ gui = NewWindow
    /\ disk = InitialDisk
    /\ gui_op = OpIdle("init", "", 0)
    /\ ExportIdle /\ CheckIdle

CanStart == gui_op.pc = "idle" /\ gui_op.ops < MaxOps /\ ~gui.closed

Done(name, outcome) == gui_op' = OpIdle(name, outcome, gui_op.ops + 1)

CellTexts == {<<>>, <<"T">>, <<" ", "U">>}
CellColumns == {"drawing_title", "comments"}

\* the user commits an edit of a title or comments cell; lines 409-418
EditCell ==
    /\ CanStart
    /\ \E r \in 1..Len(gui.sheet_table), col \in CellColumns, text \in CellTexts :
           /\ gui.sheet_table[r][col] # text
           /\ gui' = _mark_dirty([gui EXCEPT !.sheet_table[r][col] = text])
    /\ Done("edit_cell", "")
    /\ UNCHANGED disk
    /\ UNCHANGED <<exportVars, checkVars>>

EditedLines == {"project"}
LineTexts == {<<>>, <<"P">>}

\* the user types in a line edit; textChanged is connected at lines 367-381
EditLine ==
    /\ CanStart
    /\ \E f \in EditedLines, text \in LineTexts :
           /\ gui.line[f] # text
           /\ gui' = _mark_dirty([gui EXCEPT !.line[f] = text])
    /\ Done("edit_line", "")
    /\ UNCHANGED disk
    /\ UNCHANGED <<exportVars, checkVars>>

\* the user picks another entry of a combo box; lines 368-369
SelectCombo ==
    /\ CanStart
    /\ \/ \E t \in {"A3_Landscape", "A4_Portrait"} :
              /\ gui.cmb_template # t
              /\ gui' = _mark_dirty([gui EXCEPT !.cmb_template = t])
       \/ \E m \in FitItems :
              /\ gui.cmb_fit # m
              /\ gui' = _mark_dirty([gui EXCEPT !.cmb_fit = m])
    /\ Done("select_combo", "")
    /\ UNCHANGED disk
    /\ UNCHANGED <<exportVars, checkVars>>

RECURSIVE append_new(_, _)
\* lines 685-689: each path not yet listed is appended
append_new(files, paths) ==
    IF paths = <<>> THEN files
    ELSE append_new(IF \E i \in 1..Len(files) : files[i] = Head(paths)
                    THEN files ELSE Append(files, Head(paths)),
                    Tail(paths))

AddDialogPaths == {<<>>, <<p_png>>, <<sub_p_png>>, <<d_pdf>>, <<p_png, sub_p_png>>}

\* lines 674-694
AddFiles ==
    /\ CanStart
    /\ \E paths \in AddDialogPaths :
           LET files == append_new(gui._files, paths)
           IN  IF files = gui._files
               THEN gui' = gui /\ Done("add_files", "unchanged")
               ELSE /\ gui' = _mark_dirty(_rebuild_sheet_plan(
                                 [gui EXCEPT !._files = files, !.file_list = files]))
                    /\ Done("add_files", "rebuilt")
    /\ UNCHANGED disk
    /\ UNCHANGED <<exportVars, checkVars>>

\* lines 696-712
RemoveSelected ==
    /\ CanStart
    /\ \E selected \in SUBSET {gui.file_list[i] : i \in 1..Len(gui.file_list)} :
           IF selected = {}
           THEN gui' = gui /\ Done("remove_selected", "unchanged")
           ELSE /\ gui' = _mark_dirty(_rebuild_sheet_plan(
                             [gui EXCEPT
                                 !._files = SelectSeq(gui._files,
                                                      LAMBDA q : q \notin selected),
                                 !.file_list = SelectSeq(gui.file_list,
                                                         LAMBDA q : q \notin selected)]))
                /\ Done("remove_selected", "rebuilt")
    /\ UNCHANGED disk
    /\ UNCHANGED <<exportVars, checkVars>>

\* lines 714-722
ClearFiles ==
    /\ CanStart
    /\ IF gui._files = <<>> /\ gui._sheet_plan = <<>>
       THEN gui' = gui /\ Done("clear_files", "unchanged")
       ELSE /\ gui' = _mark_dirty([gui EXCEPT !._files = <<>>, !.file_list = <<>>,
                                              !._sheet_plan = <<>>, !.sheet_table = <<>>])
            /\ Done("clear_files", "cleared")
    /\ UNCHANGED disk
    /\ UNCHANGED <<exportVars, checkVars>>

\* the answers to the unsaved-changes prompt and to the Save As dialog it
\* may open; a single answer when the prompt or the dialog is not shown
PromptAnswers(g) ==
    IF ~g._dirty THEN {<<"", <<>>>>}
    ELSE {<<"Discard", <<>>>>, <<"Cancel", <<>>>>}
         \cup {<<"Save", chosen>> : chosen \in IF g._job_path = <<>> THEN SaveDialogPaths
                                               ELSE {<<>>}}

\* lines 518-526, from the menu
SaveJob ==
    /\ CanStart
    /\ \E chosen \in IF gui._job_path = <<>> THEN SaveDialogPaths ELSE {<<>>} :
           LET r == _save_job(gui, disk, chosen)
           IN  /\ gui' = r.g
               /\ disk' = r.disk
               /\ Done("save", IF r.ok THEN "saved" ELSE "not_saved")
    /\ UNCHANGED <<exportVars, checkVars>>

\* lines 528-548, from the menu
SaveJobAs ==
    /\ CanStart
    /\ \E chosen \in SaveDialogPaths :
           LET r == _save_job_as(gui, disk, chosen)
           IN  /\ gui' = r.g
               /\ disk' = r.disk
               /\ Done("save_as", IF r.ok THEN "saved" ELSE "not_saved")
    /\ UNCHANGED <<exportVars, checkVars>>

\* lines 452-485
NewJob ==
    /\ CanStart
    /\ \E answer \in PromptAnswers(gui) :
           LET r == _maybe_save_changes(gui, disk, answer[1], answer[2])
           IN  /\ disk' = r.disk
               /\ IF ~r.ok
                  THEN /\ gui' = r.g
                       /\ gui_op' = [OpIdle("new", "cancelled", gui_op.ops + 1)
                                         EXCEPT !.answer = answer]
                  ELSE /\ gui' = _set_clean(
                               [r.g EXCEPT !._job_path = <<>>, !._files = <<>>,
                                           !._sheet_plan = <<>>, !.file_list = <<>>,
                                           !.sheet_table = <<>>,
                                           !.line = [f \in LineEdits |-> <<>>],
                                           !.cmb_template = "A3_Landscape",
                                           !.cmb_fit = "fit", !._loading = FALSE])
                       /\ gui_op' = [OpIdle("new", "cleared", gui_op.ops + 1)
                                         EXCEPT !.answer = answer]
    /\ UNCHANGED <<exportVars, checkVars>>

\* _open_job lines 487-506: the prompt, the file dialog and json.load
OpenJobRead ==
    /\ CanStart
    /\ \E answer \in PromptAnswers(gui) :
           LET r == _maybe_save_changes(gui, disk, answer[1], answer[2])
           IN  /\ disk' = r.disk
               /\ gui' = r.g
               /\ IF ~r.ok
                  THEN gui_op' = [OpIdle("open", "cancelled", gui_op.ops + 1)
                                     EXCEPT !.answer = answer]
                  ELSE \E opened \in {<<>>} \cup {<<path>> : path \in DOMAIN r.disk} :
                           IF opened = <<>>
                           THEN gui_op' = [OpIdle("open", "no_file", gui_op.ops + 1)
                                              EXCEPT !.answer = answer]
                           ELSE IF r.disk[opened[1]].kind = "unreadable"
                           THEN gui_op' = [OpIdle("open", "unreadable", gui_op.ops + 1)
                                              EXCEPT !.answer = answer]
                           ELSE gui_op' = [pc |-> "apply", name |-> "open",
                                           outcome |-> "", path |-> opened,
                                           data |-> <<r.disk[opened[1]]>>,
                                           before |-> <<gui>>, answer |-> answer,
                                           ops |-> gui_op.ops]
    /\ UNCHANGED <<exportVars, checkVars>>

\* _open_job lines 508-512 with _apply_job_dict lines 604-643: the checks,
\* then the files, the plan and the table
OpenJobApply ==
    /\ gui_op.pc = "apply"
    /\ LET data == gui_op.data[1]
           r == _apply_job_dict(gui, data)
       IN  IF r.raised # <<>>
           THEN /\ gui' = r.g
                /\ gui_op' = [gui_op EXCEPT !.pc = "idle", !.outcome = "invalid",
                                            !.ops = @ + 1]
           ELSE /\ gui' = load_sheets(gui, dict_get(data.files, <<"list", <<>>>>)[2],
                                      data.overrides_by_label)
                /\ gui_op' = [gui_op EXCEPT !.pc = "fields"]
    /\ UNCHANGED disk
    /\ UNCHANGED <<exportVars, checkVars>>

\* _apply_job_dict lines 645-666: the UI fields, then finally: _loading = False
OpenJobFields ==
    /\ gui_op.pc = "fields"
    /\ gui' = [set_ui_fields(gui, gui_op.data[1].ui) EXCEPT !._loading = FALSE]
    /\ gui_op' = [gui_op EXCEPT !.pc = "finish"]
    /\ UNCHANGED disk
    /\ UNCHANGED <<exportVars, checkVars>>

\* _open_job lines 514-516: the job path and _set_clean
OpenJobFinish ==
    /\ gui_op.pc = "finish"
    /\ gui' = _set_clean([gui EXCEPT !._job_path = gui_op.path])
    /\ gui_op' = [gui_op EXCEPT !.pc = "idle", !.outcome = "loaded", !.ops = @ + 1]
    /\ UNCHANGED disk
    /\ UNCHANGED <<exportVars, checkVars>>

\* lines 907-911
CloseWindow ==
    /\ CanStart
    /\ \E answer \in PromptAnswers(gui) :
           LET r == _maybe_save_changes(gui, disk, answer[1], answer[2])
           IN  /\ disk' = r.disk
               /\ gui' = [r.g EXCEPT !.closed = r.ok]
               /\ gui_op' = [OpIdle("close", IF r.ok THEN "accepted" ELSE "ignored",
                                    gui_op.ops + 1) EXCEPT !.answer = answer]
    /\ UNCHANGED <<exportVars, checkVars>>

GuiNext ==
    \/ EditCell
    \/ EditLine
    \/ SelectCombo
    \/ AddFiles
    \/ RemoveSelected
    \/ ClearFiles
    \/ SaveJob
    \/ SaveJobAs
    \/ NewJob
    \/ OpenJobRead
    \/ OpenJobApply
    \/ OpenJobFields
    \/ OpenJobFinish
    \/ CloseWindow

SpecGui == GuiInit /\ [][GuiNext]_vars

----------------------------------------------------------------------------
(* Properties of the main window *)

\* what a failed open is said to leave alone
JobState(g) ==
    <<g._files, g.file_list, g._sheet_plan, g.sheet_table, g.line,
      g.cmb_template, g.cmb_fit, g._job_path, g._dirty>>

\* the version entry of the record is missing or is not the number 1
VersionDiffers(v) ==
    \/ v[1] \notin {"int", "float"}
    \/ v[1] = "int" /\ v[2] # JOB_FILE_VERSION
    \/ v[1] = "float" /\ v[2] # 10 * JOB_FILE_VERSION

\* int() of the version entry, 0 when missing, fails or is not 1
ConvertedVersionDiffers(v) ==
    LET c == python_int(dict_get(v, <<"int", 0>>))
    IN  ~c.ok \/ c.n # JOB_FILE_VERSION

OpenFinished ==
    /\ gui_op.name = "open" /\ gui_op.pc = "idle" /\ gui_op.data # <<>>
    /\ gui_op.data[1].kind = "object"

\* C18 as stated: an open of a record whose version is missing or differs
\* from 1 fails, and the window is after it as it was before it.
C18_FailedOpenChangesNothing ==
    (OpenFinished /\ VersionDiffers(gui_op.data[1].version)) =>
        /\ gui_op.outcome = "invalid"
        /\ JobState(gui) = JobState(gui_op.before[1])

\* C18 amended: when the version of the record read, converted with int()
\* (0 when missing), cannot be converted or is not 1, _apply_job_dict raises
\* and its step leaves the file list, the sheet plan, the sheet table, the
\* UI fields, the job path, the dirty flag and the loading flag as they were.
C18_BadVersionRaisesBeforeChange ==
    [][(/\ gui_op.pc = "apply"
        /\ gui_op.data[1].kind = "object"
        /\ ConvertedVersionDiffers(gui_op.data[1].version))
           => /\ gui_op'.outcome = "invalid"
              /\ JobState(gui') = JobState(gui)
              /\ gui'._loading = gui._loading]_vars

C18_Witness ==
    /\ OpenFinished
    /\ gui_op.outcome = "invalid"
    /\ gui_op.data[1].version[1] = "int"
    /\ gui_op.data[1].version[2] = 2
    /\ gui._files # <<>>
    /\ gui._dirty
    /\ JobState(gui) = JobState(gui_op.before[1])

RebuildStep ==
    /\ gui_op.pc = "idle"
    /\ gui_op'.ops = gui_op.ops + 1
    /\ gui_op'.name \in {"add_files", "remove_selected"}
    /\ gui_op'.outcome = "rebuilt"

\* C20: each sheet of the rebuilt plan whose label was in the sheet table
\* before the rebuild carries, in the plan and in the table, the drawing
\* title and comments a row of that label showed before the rebuild.
C20_OverridesSurviveRebuild ==
    [][RebuildStep =>
          \A n \in 1..Len(gui'._sheet_plan) :
              LET now == gui'._sheet_plan[n]
                  rows == {r \in 1..Len(gui.sheet_table) :
                               gui.sheet_table[r].source = now.source_label}
              IN  rows # {} =>
                      \E r \in rows :
                          /\ strip(now.drawing_title) = strip(gui.sheet_table[r].drawing_title)
                          /\ strip(now.comments) = strip(gui.sheet_table[r].comments)
                          /\ strip(gui'.sheet_table[n].drawing_title)
                                 = strip(gui.sheet_table[r].drawing_title)
                          /\ strip(gui'.sheet_table[n].comments)
                                 = strip(gui.sheet_table[r].comments)]_vars

\* C21: while _apply_job_dict populates the window, from the assignment
\* of line 629 to the finally clause, _loading is true and no step of the
\* load turns _dirty from false to true.
C21_LoadingGuardsDirty ==
    [][/\ gui_op.pc = "fields" => gui._loading
       /\ gui_op.pc \in {"apply", "fields"} => (gui'._dirty => gui._dirty)]_vars

\* a step of New, Open (up to the read of the file) or window close
PromptStep ==
    /\ gui_op.pc = "idle"
    /\ gui_op'.name \in {"new", "open", "close"}
    /\ gui_op'.ops = gui_op.ops + 1 \/ gui_op'.pc = "apply"

\* the operation went on after _maybe_save_changes
Proceeds == gui_op'.outcome \notin {"cancelled", "ignored"}

\* the path a Save chosen in the prompt writes to, <<>> when the Save As
\* dialog was cancelled
SavePath ==
    IF gui._job_path # <<>> THEN gui._job_path
    ELSE IF gui_op'.answer[2] = <<>> THEN <<>>
    ELSE IF endswith(lower(gui_op'.answer[2][1]), JOB_EXT) THEN gui_op'.answer[2]
    ELSE <<gui_op'.answer[2][1] \o JOB_EXT>>

\* the job as the table shows it is on disk at the path of the save
SaveSucceeded ==
    /\ gui_op'.answer[1] = "Save"
    /\ SavePath # <<>>
    /\ SavePath[1] \in DOMAIN disk'
    /\ disk'[SavePath[1]] = _build_job_dict(_sync_sheet_overrides_from_table(gui))

OkToProceed == ~gui._dirty \/ gui_op'.answer[1] = "Discard" \/ SaveSucceeded

DefaultTemplateLayout ==
    /\ LaidOut
    /\ \E n \in DOMAIN TEMPLATES :
           ck_in.page = [w |-> TEMPLATES[n][1] * LayoutScale,
                         h |-> TEMPLATES[n][2] * LayoutScale]
    /\ ck_in.settings.page_margin_pt = Pt(18)
    /\ ck_in.settings.title_block_width_pt = Pt(210)

\* C23: for each registered template with the default settings the five
\* bands sum to the strip height, the three top label cells stay above the
\* drawing title band, and the logo box stays inside the strip and the page.
C23_BandsFitDefaultTemplates ==
    DefaultTemplateLayout =>
        LET b == ck_out.bands
        IN  /\ b.sign_h + b.comments_h + b.info_h + b.title_h + b.top_h = b.tb_h
            /\ \A k \in 1..3 : b.top_cells[k].y >= b.y4
            /\ b.logo_box.y + b.logo_box.h <= b.tb_y + b.tb_h
            /\ b.logo_box.y + b.logo_box.h <= ck_in.page.h

\* _open_job has loaded a file that holds the job exactly as _build_job_dict
\* saves it from the window the handler started in
LoadedOwnSave ==
    /\ gui_op.pc = "idle"
    /\ gui_op.name = "open"
    /\ gui_op.outcome = "loaded"
    /\ gui_op.data[1] = _build_job_dict(gui_op.before[1])

\* C24: a job saved and loaded back has, for every sheet of the plan, the
\* drawing title and comments the sheet had when the job was saved,
\* whatever the input files, files sharing a base name included.
C24_SaveLoadRestoresOverrides ==
    LoadedOwnSave =>
        LET saved == gui_op.before[1]._sheet_plan
        IN  /\ Len(gui._sheet_plan) = Len(saved)
            /\ \A i \in 1..Len(saved) :
                   /\ gui._sheet_plan[i].drawing_title = saved[i].drawing_title
                   /\ gui._sheet_plan[i].comments = saved[i].comments

\* C25: every image rasterized for a pdf sheet is closed when
\* export_sheet_plan_to_pdf has returned or raised, whichever step failed.
\* (The PDF document is closed by the finally clause of lines 114-127 on
\* every path out of _render_pdf_page_to_image.)
C25_ImagesClosedAtExit ==
    pc \in {"done", "raised"} => LiveImages = {}

\* the characters of s that are not whitespace, in order
NonWhitespace(s) == SelectSeq(s, LAMBDA ch : ch \notin Whitespace)

\* the lines one after the other
RECURSIVE Concat(_)
Concat(lines) == IF lines = <<>> THEN <<>> ELSE Head(lines) \o Concat(Tail(lines))

\* C26: the non-whitespace characters of the lines _wrap_text_to_lines
\* returns, read in order, are those of the text; no line is empty; and no
\* line is returned exactly when the text is empty or all whitespace.
C26_WrapKeepsCharacters ==
    ck_pc \in {"wrapped", "rewrapped"} =>
        LET lines == ck_out[1]
        IN  /\ NonWhitespace(Concat(lines)) = NonWhitespace(ck_in.text)
            /\ \A n \in 1..Len(lines) : lines[n] # <<>>
            /\ lines = <<>> <=> NonWhitespace(ck_in.text) = <<>>

C26_Witness ==
    /\ ck_pc = "wrapped"
    /\ Len(ck_out[1]) = 2
    /\ " " \in {ck_out[1][1][i] : i \in 1..Len(ck_out[1][1])}
    /\ w(ck_out[1][2], ck_in.font_size) > ck_in.max_width
    /\ "\n" \in {ck_in.text[i] : i \in 1..Len(ck_in.text)}

----------------------------------------------------------------------------
(* drawing_engine.py: _draw_cell.  Lengths are in 1/1000 pt, the y of a     *)
(* drawn line is kept doubled; the value font size 9.2 is kept in tenths.   *)

\* lines 368-416: the c.drawString calls made for the value and the font
\* size set for them; cell_w is the parameter w
_draw_cell(x, y, cell_w, h, label, value, pad) ==
    LET vf_size10 == 92
        int_vf_size == vf_size10 \div 10
        label_y == y + h - (pad + 9000)
        value_area_top == label_y - 6000
        value_area_bottom == y + pad
        value_area_h == Max2(1000, value_area_top - value_area_bottom)
        lead == 1000 * Max2(11, int_vf_size + 2)
        all == _wrap_text_to_lines(strip(value), cell_w - 2 * pad, int_vf_size)
        lines == first_lines(all, IF lead > 0 THEN value_area_h \div lead ELSE Len(all))
        block_h == Len(lines) * lead
        start2 == 2 * value_area_bottom + value_area_h + block_h - 2 * lead
    IN  [font_size10 |-> vf_size10,
         drawn |-> [n \in 1..Len(lines) |->
                       [x |-> x + pad, y2 |-> start2 - 2 * (n - 1) * lead,
                        text |-> lines[n]]]]

CellInputs ==
    [value : StringsUpTo({"i", "W", " "}, MaxText),
     w : {20496, 29000, 42000},
     h : {20000, 50000}]

CellInit ==
    /\ ck_in \in CellInputs
    /\ ck_out = <<>>
    /\ ck_pc = "ready"
    /\ ExportIdle /\ GuiIdle

CellCall ==
    /\ ck_pc = "ready"
    /\ ck_out' = <<_draw_cell(0, 0, ck_in.w, ck_in.h, <<"I">>, ck_in.value, 6000)>>
    /\ ck_pc' = "drawn"
    /\ UNCHANGED ck_in
    /\ UNCHANGED <<exportVars, guiVars>>

SpecCell == CellInit /\ [][CellCall]_vars

\* C27: every value line _draw_cell draws, measured at the font size it is
\* drawn with, is at most the cell width minus twice the padding wide,
\* unless it is a single character.  (Both sides in 1/10000 pt.)
C27_DrawnLinesFitCell ==
    ck_pc = "drawn" =>
        \A n \in 1..Len(ck_out[1].drawn) :
            LET line == ck_out[1].drawn[n].text
            IN  \/ w(line, ck_out[1].font_size10) <= 10 * (ck_in.w - 2 * 6000)
                \/ Len(line) = 1

====
